---------------------------- MODULE Spec2Model ----------------------------
(***************************************************************************)
(* Weather alert bot: the daily aggregator (weather_monitor.py), the alert *)
(* classifier (alert_manager.py), the subscriber list (subscribers.py,     *)
(* auto_subscribe.py), the notifier (telegram_bot.py) and the run that     *)
(* ties them together (main.py).                                           *)
(*                                                                         *)
(* Conventions of the translation                                          *)
(*  - A Python dict is a function whose DOMAIN is the set of keys present; *)
(*    d.get(k, default) is Get(d, k, default).                             *)
(*  - Optional[T] is a sequence of length <= 1: None is <<>>, a value x is *)
(*    <<x>>.                                                               *)
(*  - A call's outcome is [raised |-> exception name or "none",            *)
(*    value |-> returned sequence].                                        *)
(*  - A datetime is a number of hours since an epoch; .date() is the day   *)
(*    number (time \div 24).                                               *)
(*  - Measurements and thresholds are integers (km/h, mm, degrees C,       *)
(*    percent).  threshold * 1.5, threshold * 1.2 and threshold * 2 are    *)
(*    compared by cross-multiplying by 10, which agrees with the float     *)
(*    comparison for every integer measurement and threshold.              *)
(*  - A weather label is a sequence of characters.                         *)
(*                                                                         *)
(* A behaviour is a series of calls: from the idle state one operation is  *)
(* called on inputs drawn from the bounded input sets, its arguments and   *)
(* outcome are recorded, and Finish returns to the idle state.             *)
(* SpecAggregator calls get_daily_summary; SpecClassifier calls the rule   *)
(* evaluators and check_alerts of an AlertManager built on a configuration.*)
(* SpecAllLocations calls check_all_locations; SpecFrame makes the calls   *)
(* of the aggregator and the classifier in two steps (entry, body) to      *)
(* compare the caller's objects before and after; SpecSubscribers calls    *)
(* subscribers.py on a subscribers.json that stays on disk between calls;  *)
(* SpecAutoSubscribe calls process_pending_messages while Telegram keeps   *)
(* the updates that no call has confirmed; SpecRun is a series of runs of  *)
(* check_weather_and_send_alerts (main.py), the Telegram answers of a run  *)
(* being inputs of the run; SpecFetch calls get_forecasts_for_locations;   *)
(* SpecNotifier calls send_message and send_alerts of a TelegramNotifier.  *)
(***************************************************************************)
EXTENDS Integers, Sequences, FiniteSets, TLC

VARIABLES
    pc,            \* "idle": no call in progress; "done": a call has returned or raised
    op,            \* the operation that was called
    now,           \* datetime.now() read by the call
    forecast,      \* the forecast_data argument
    days_ahead,    \* the days_ahead argument
    alert_config,  \* AlertManager.alert_config
    daily_summary, \* the daily_summary argument of a rule evaluator (Optional)
    result,        \* the call's outcome
    forecasts,          \* the forecast list of check_all_locations and of a run
    subscribers_file,   \* subscribers.json
    subscribers_before, \* subscribers.json when the call began
    args,               \* the call's other inputs (a record, per operation)
    sent,               \* the Telegram send attempts of the call, in order
    pending_updates     \* the updates Telegram holds for the bot, not yet confirmed

vars == <<pc, op, now, forecast, days_ahead, alert_config, daily_summary, result,
          forecasts, subscribers_file, subscribers_before, args, sent, pending_updates>>

\* what the aggregator's and the classifier's recorded calls do not touch
outside == <<forecasts, subscribers_file, subscribers_before, args, sent, pending_updates>>

----------------------------------------------------------------------------
(* Bounds of the model *)

MaxSamples == 3      \* samples per enumerated forecast
MaxDay == 2          \* sample days are 0..MaxDay
MaxDaysAhead == 3    \* days_ahead arguments are 0..MaxDaysAhead
MaxWind == 100       \* wind speeds and gusts 0..MaxWind km/h
MaxPrecip == 66      \* precipitation totals 0..MaxPrecip mm
MaxCold == 7         \* temperatures -MaxCold..MaxHeat degrees C
MaxFileEntries == 2
MaxUpdates == 2
MaxRunUpdates == 1
MaxLocations == 3
MaxChatIds == 2
MaxAlerts == 2
MaxHeat == 41

HoursPerDay == 24

----------------------------------------------------------------------------
(* Python built-ins *)

None == <<>>
Some(x) == <<x>>

Return(v) == [raised |-> "none", value |-> v]
Raise(e) == [raised |-> e, value |-> <<>>]

Get(d, k, default) == IF k \in DOMAIN d THEN d[k] ELSE default

RECURSIVE MaxOf(_)
MaxOf(s) ==
    IF Len(s) = 1 THEN s[1]
    ELSE LET m == MaxOf(Tail(s)) IN IF s[1] >= m THEN s[1] ELSE m

RECURSIVE MinOf(_)
MinOf(s) ==
    IF Len(s) = 1 THEN s[1]
    ELSE LET m == MinOf(Tail(s)) IN IF s[1] <= m THEN s[1] ELSE m

RECURSIVE SumOf(_)
SumOf(s) == IF s = <<>> THEN 0 ELSE s[1] + SumOf(Tail(s))

\* (f[key] for f in seq)
Field(seq, key) == [i \in 1..Len(seq) |-> seq[i][key]]

\* datetime.date()
Date(time) == time \div HoursPerDay

----------------------------------------------------------------------------
(* Input data: forecast samples as _parse_forecast builds them *)

Clear == <<"C", "l", "e", "a", "r">>
Rain == <<"R", "a", "i", "n">>
Thunderstorm == <<"T", "h", "u", "n", "d", "e", "r", "s", "t", "o", "r", "m">>

\* One bucket's readings (everything of a sample but its time).  In each the
\* bucket minimum, point temperature and bucket maximum differ.
Calm ==
    [temperature |-> 10, temp_min |-> 8, temp_max |-> 12, weather |-> Clear,
     wind_speed_kmh |-> 10, wind_gust |-> 0,
     precipitation |-> 0, precipitation_probability |-> 0]

Profiles ==
    { Calm,
      [temperature |-> 1, temp_min |-> -2, temp_max |-> 3, weather |-> Rain,
       wind_speed_kmh |-> 55, wind_gust |-> 60,
       precipitation |-> 12, precipitation_probability |-> 80],
      [temperature |-> 33, temp_min |-> 30, temp_max |-> 36, weather |-> Thunderstorm,
       wind_speed_kmh |-> 20, wind_gust |-> 75,
       precipitation |-> 25, precipitation_probability |-> 40] }

\* forecast_entry of _parse_forecast: the keys get_daily_summary reads
Sample(time, p) ==
    [time |-> time,
     temperature |-> p.temperature, temp_min |-> p.temp_min, temp_max |-> p.temp_max,
     weather |-> p.weather,
     wind_speed_kmh |-> p.wind_speed_kmh, wind_gust |-> p.wind_gust,
     precipitation |-> p.precipitation,
     precipitation_probability |-> p.precipitation_probability]

SampleTimes == {d * HoursPerDay + h : d \in 0..MaxDay, h \in {0, 21}}
Samples == {Sample(t, p) : t \in SampleTimes, p \in Profiles}

LocationNames == {"home", "cabin"}

\* the dict _parse_forecast returns: the keys the core reads
Forecast(location_name, samples) ==
    [location_name |-> location_name, forecasts |-> samples]

\* Forecast invariant: samples ordered by timestamp, ascending
Ascending(s) == \A i \in 1..(Len(s) - 1) : s[i].time < s[i + 1].time

SampleLists ==
    UNION {{s \in [1..n -> Samples] : Ascending(s)} : n \in 0..MaxSamples}

Forecasts == {Forecast(l, s) : l \in LocationNames, s \in SampleLists}

Nows == {d * HoursPerDay + 9 : d \in 0..1}
DayOffsets == 0..MaxDaysAhead

----------------------------------------------------------------------------
(* Input data: alert configurations *)

AlertTypes == <<"wind", "storm", "temperature", "precipitation", "weather_conditions">>

Dict1(k, v) == <<[key |-> k, value |-> v]>>

WindConfigs ==
    { [enabled |-> TRUE],
      [enabled |-> TRUE, threshold_kmh |-> 50],
      [enabled |-> TRUE, threshold_kmh |-> 33] }

StormConfigs ==
    { [enabled |-> TRUE],
      [enabled |-> TRUE, wind_gust_threshold_kmh |-> 70, precipitation_threshold_mm |-> 20],
      [enabled |-> TRUE, wind_gust_threshold_kmh |-> 45, precipitation_threshold_mm |-> 8],
      [enabled |-> TRUE, wind_gust_threshold_kmh |-> 45],
      [enabled |-> TRUE, precipitation_threshold_mm |-> 8] }

TemperatureConfigs ==
    { [enabled |-> TRUE],
      [enabled |-> TRUE, min_temp_c |-> 0],
      [enabled |-> TRUE, max_temp_c |-> 35],
      [enabled |-> TRUE, min_temp_c |-> 0, max_temp_c |-> 35],
      [enabled |-> TRUE, min_temp_c |-> 12, max_temp_c |-> 10] }

PrecipitationConfigs ==
    { [enabled |-> TRUE],
      [enabled |-> TRUE, threshold_mm |-> 30],
      [enabled |-> TRUE, threshold_mm |-> 7] }

Storm == <<"s", "t", "o", "r", "m">>
RainUpper == <<"R", "A", "I", "N">>
Snow == <<"s", "n", "o", "w">>

WeatherConditionsConfigs ==
    { [enabled |-> TRUE],
      [enabled |-> TRUE, alert_on |-> <<>>],
      [enabled |-> TRUE, alert_on |-> <<Storm>>],
      [enabled |-> TRUE, alert_on |-> <<Snow, RainUpper>>],
      [enabled |-> TRUE, alert_on |-> <<RainUpper, Storm>>] }

\* the rule configuration of a type as the shipped config.yaml would give it
DefaultRule(alert_type) ==
    CASE alert_type = "wind" -> [enabled |-> TRUE, threshold_kmh |-> 50]
      [] alert_type = "storm" ->
            [enabled |-> TRUE, wind_gust_threshold_kmh |-> 70,
             precipitation_threshold_mm |-> 20]
      [] alert_type = "temperature" -> [enabled |-> TRUE, min_temp_c |-> 0, max_temp_c |-> 35]
      [] alert_type = "precipitation" -> [enabled |-> TRUE, threshold_mm |-> 30]
      [] alert_type = "weather_conditions" -> [enabled |-> TRUE, alert_on |-> <<Storm, RainUpper>>]

Reversed(s) == [i \in 1..Len(s) |-> s[Len(s) + 1 - i]]

\* a configuration with every rule type, those of `on` enabled
ConfigWith(order, on) ==
    [i \in 1..Len(order) |->
        [key |-> order[i],
         value |-> [DefaultRule(order[i]) EXCEPT !.enabled = (order[i] \in on)]]]

AlertTypeSet == {AlertTypes[i] : i \in 1..Len(AlertTypes)}

AlertConfigs ==
    {ConfigWith(AlertTypes, on) : on \in SUBSET AlertTypeSet}
    \cup {ConfigWith(Reversed(AlertTypes), AlertTypeSet)}
    \cup {<<>>, Dict1("wind", [threshold_kmh |-> 50])}

\* time of the evaluated call and the one forecast bucket of the next day
EvalNow == CHOOSE t \in Nows : Date(t) = 0
EvalTime == HoursPerDay + 12
OneSampleForecast(p) == Forecast("home", <<Sample(EvalTime, p)>>)

Winds == 0..MaxWind
Precips == 0..MaxPrecip
Temps == (0 - MaxCold)..MaxHeat

WindProfiles ==
    {[Calm EXCEPT !.wind_speed_kmh = w, !.wind_gust = g] : w \in Winds, g \in Winds}
StormProfiles ==
    {[Calm EXCEPT !.wind_gust = g, !.precipitation = r] : g \in Winds, r \in Precips}
TemperatureProfiles ==
    UNION {{[Calm EXCEPT !.temp_min = lo, !.temp_max = hi, !.temperature = lo] :
               hi \in lo..MaxHeat} : lo \in Temps}
PrecipitationProfiles ==
    {[Calm EXCEPT !.precipitation = r, !.precipitation_probability = q] :
        r \in Precips, q \in {0, 80}}
Labels == {Clear, Rain, Thunderstorm}
\* one or two buckets of the next day, each with its own label
ConditionForecasts ==
    {OneSampleForecast([Calm EXCEPT !.weather = a]) : a \in Labels}
    \cup {Forecast("home", <<Sample(EvalTime, [Calm EXCEPT !.weather = a]),
                             Sample(EvalTime + 3, [Calm EXCEPT !.weather = b])>>) :
             a \in Labels, b \in Labels}

\* the forecasts handed to check_alerts
CheckedForecasts ==
    {Forecast(l, s) : l \in LocationNames,
                      s \in {x \in SampleLists : Len(x) <= 1}}

\* An entry of the alerts section that is not a mapping (a number, a string)
Scalar == [scalar |-> TRUE]

\* wind and storm rules, each enabled or not and checked at its own offset
WindRules ==
    {[enabled |-> e, threshold_kmh |-> 50] : e \in BOOLEAN}
    \cup {[enabled |-> e, threshold_kmh |-> 50, check_days_ahead |-> d] :
             e \in BOOLEAN, d \in 1..MaxDay}
StormRules ==
    {[enabled |-> e, wind_gust_threshold_kmh |-> 70, precipitation_threshold_mm |-> 20] :
        e \in BOOLEAN}
    \cup {[enabled |-> e, wind_gust_threshold_kmh |-> 70, precipitation_threshold_mm |-> 20,
            check_days_ahead |-> d] : e \in BOOLEAN, d \in 1..MaxDay}
AllLocationsConfigs ==
    {<<[key |-> "wind", value |-> w], [key |-> "storm", value |-> r]>> :
        w \in WindRules, r \in StormRules}
    \cup {<<[key |-> "units", value |-> Scalar], [key |-> "wind", value |-> w]>> :
             w \in WindRules}
    \cup {<<>>}

\* a bucket that breaches the wind and the storm thresholds
Gale ==
    [Calm EXCEPT !.weather = Thunderstorm, !.wind_speed_kmh = 80, !.wind_gust = 90,
                 !.precipitation = 25, !.precipitation_probability = 80]
Noon(d) == d * HoursPerDay + 12
\* a location's buckets: none, or one at noon of one or two of the coming days
DailySamples ==
    {<<>>}
    \cup {<<Sample(Noon(d), p)>> : d \in 1..MaxDay, p \in {Calm, Gale}}
    \cup UNION {{<<Sample(Noon(d), p), Sample(Noon(e), q)>> :
                    p \in {Calm, Gale}, q \in {Calm, Gale}} :
                 <<d, e>> \in {x \in (1..MaxDay) \X (1..MaxDay) : x[1] < x[2]}}
\* the forecasts of no, one or two locations
ForecastLists ==
    {<<>>}
    \cup {<<Forecast("home", x)>> : x \in DailySamples}
    \cup {<<Forecast("home", x), Forecast("cabin", y)>> :
             x \in DailySamples, y \in DailySamples}

----------------------------------------------------------------------------
(* weather_monitor.py: WeatherMonitor *)

\* WeatherMonitor.__init__: an empty api key is refused
WeatherMonitor(api_key) ==
    IF api_key = "" THEN Raise("WeatherAPIError") ELSE Return(<<api_key>>)

\* Mutant: the date filter is dropped
day_forecasts_unfiltered(forecast_data, target_date) == forecast_data.forecasts

\* Mutant: the filter keeps every sample from the target date on
day_forecasts_from_target(forecast_data, target_date) ==
    SelectSeq(forecast_data.forecasts, LAMBDA f : Date(f.time) >= target_date)

\* the samples of the target day, in forecast order
day_forecasts(forecast_data, target_date) ==
    SelectSeq(forecast_data.forecasts, LAMBDA f : Date(f.time) = target_date)

summary_temp_min(day) == MinOf(Field(day, "temp_min"))
\* Mutant: the maximum of the point temperatures
summary_temp_max_of_points(day) == MaxOf(Field(day, "temperature"))
summary_temp_max(day) == MaxOf(Field(day, "temp_max"))
\* true division: kept as the exact quotient sum / count
summary_temp_avg(day) == [sum |-> SumOf(Field(day, "temperature")), count |-> Len(day)]
summary_wind_speed_max(day) == MaxOf(Field(day, "wind_speed_kmh"))
summary_wind_gust_max(day) == MaxOf(Field(day, "wind_gust"))
summary_precipitation_total(day) == SumOf(Field(day, "precipitation"))
summary_precipitation_probability_max(day) == MaxOf(Field(day, "precipitation_probability"))
\* list(set(...)): the distinct labels; their order is unspecified
summary_weather_conditions(day) == {day[i].weather : i \in 1..Len(day)}

get_daily_summary(forecast_data, days, time_now) ==
    LET target_date == Date(time_now) + days
        day == day_forecasts(forecast_data, target_date)
    IN  IF day = <<>> THEN None
        ELSE Some([date |-> target_date,
                   location_name |-> forecast_data.location_name,
                   temp_min |-> summary_temp_min(day),
                   temp_max |-> summary_temp_max(day),
                   temp_avg |-> summary_temp_avg(day),
                   wind_speed_max |-> summary_wind_speed_max(day),
                   wind_gust_max |-> summary_wind_gust_max(day),
                   precipitation_total |-> summary_precipitation_total(day),
                   precipitation_probability_max |->
                       summary_precipitation_probability_max(day),
                   weather_conditions |-> summary_weather_conditions(day),
                   hourly_forecasts |-> day])

----------------------------------------------------------------------------
(* alert_manager.py: Alert and AlertManager *)

\* An ordered Python dict: a sequence of [key, value] items with distinct keys
HasKey(d, k) == \E i \in 1..Len(d) : d[i].key = k
Item(d, k) == d[CHOOSE i \in 1..Len(d) : d[i].key = k].value
\* d.get(k, default)
DictGet(d, k, default) == IF HasKey(d, k) THEN Item(d, k) ELSE default

\* str.lower() on the letters
UpperLetters == <<"A", "B", "C", "D", "E", "F", "G", "H", "I", "J", "K", "L", "M",
                  "N", "O", "P", "Q", "R", "S", "T", "U", "V", "W", "X", "Y", "Z">>
LowerLetters == <<"a", "b", "c", "d", "e", "f", "g", "h", "i", "j", "k", "l", "m",
                  "n", "o", "p", "q", "r", "s", "t", "u", "v", "w", "x", "y", "z">>
LowerChar(ch) ==
    IF \E i \in 1..Len(UpperLetters) : UpperLetters[i] = ch
    THEN LowerLetters[CHOOSE i \in 1..Len(UpperLetters) : UpperLetters[i] = ch]
    ELSE ch
Lower(str) == [i \in 1..Len(str) |-> LowerChar(str[i])]

\* Mutant: needle at the start of haystack only
StartsWith(haystack, needle) ==
    /\ Len(needle) <= Len(haystack)
    /\ \A i \in 1..Len(needle) : haystack[i] = needle[i]

\* needle in haystack
Contains(haystack, needle) ==
    \E k \in 0..(Len(haystack) - Len(needle)) :
        \A i \in 1..Len(needle) : haystack[k + i] = needle[i]

\* x >= threshold * (tenths / 10)
AtLeastTimes(x, threshold, tenths) == x * 10 >= threshold * tenths

\* Alert.__init__ (created_at, the construction time, is left out)
Alert(location_name, alert_type, severity, message, details, forecast_date) ==
    [location_name |-> location_name, alert_type |-> alert_type,
     severity |-> severity, message |-> message, details |-> details,
     forecast_date |-> forecast_date]

\* Mutant of the comparison: x > threshold * (tenths / 10)
MoreThanTimes(x, threshold, tenths) == x * 10 > threshold * tenths

\* Mutant: without threshold_kmh the rule is skipped
check_wind_alert_skip_without_threshold(config, summary) ==
    IF ~HasKey(config, "wind") THEN Raise("KeyError")
    ELSE
    LET wind_config == Item(config, "wind")
        threshold == Get(wind_config, "threshold_kmh", 50)
        max_wind == summary.wind_speed_max
        max_gust == summary.wind_gust_max
        severity ==
            IF AtLeastTimes(max_wind, threshold, 15) \/ AtLeastTimes(max_gust, threshold, 15)
            THEN "severe"
            ELSE IF AtLeastTimes(max_wind, threshold, 12)
                    \/ AtLeastTimes(max_gust, threshold, 12)
                 THEN "high"
                 ELSE "moderate"
    IN  IF "threshold_kmh" \in DOMAIN wind_config
           /\ (max_wind >= threshold \/ max_gust >= threshold)
        THEN Return(Some(Alert(summary.location_name, "wind", severity,
                               <<"high winds expected with gusts up to", max_gust, "km/h">>,
                               [max_wind_speed_kmh |-> max_wind,
                                max_wind_gust_kmh |-> max_gust,
                                threshold_kmh |-> threshold],
                               summary.date)))
        ELSE Return(None)

\* Mutant: the gust is not compared with the threshold
check_wind_alert_speed_only(config, summary) ==
    IF ~HasKey(config, "wind") THEN Raise("KeyError")
    ELSE
    LET wind_config == Item(config, "wind")
        threshold == Get(wind_config, "threshold_kmh", 50)
        max_wind == summary.wind_speed_max
        max_gust == summary.wind_gust_max
        severity ==
            IF AtLeastTimes(max_wind, threshold, 15) \/ AtLeastTimes(max_gust, threshold, 15)
            THEN "severe"
            ELSE IF AtLeastTimes(max_wind, threshold, 12)
                    \/ AtLeastTimes(max_gust, threshold, 12)
                 THEN "high"
                 ELSE "moderate"
    IN  IF max_wind >= threshold
        THEN Return(Some(Alert(summary.location_name, "wind", severity,
                               <<"high winds expected with gusts up to", max_gust, "km/h">>,
                               [max_wind_speed_kmh |-> max_wind,
                                max_wind_gust_kmh |-> max_gust,
                                threshold_kmh |-> threshold],
                               summary.date)))
        ELSE Return(None)

\* Mutant: the severity boundaries are exclusive
check_wind_alert_exclusive(config, summary) ==
    IF ~HasKey(config, "wind") THEN Raise("KeyError")
    ELSE
    LET wind_config == Item(config, "wind")
        threshold == Get(wind_config, "threshold_kmh", 50)
        max_wind == summary.wind_speed_max
        max_gust == summary.wind_gust_max
        severity ==
            IF MoreThanTimes(max_wind, threshold, 15) \/ MoreThanTimes(max_gust, threshold, 15)
            THEN "severe"
            ELSE IF MoreThanTimes(max_wind, threshold, 12)
                    \/ MoreThanTimes(max_gust, threshold, 12)
                 THEN "high"
                 ELSE "moderate"
    IN  IF max_wind >= threshold \/ max_gust >= threshold
        THEN Return(Some(Alert(summary.location_name, "wind", severity,
                               <<"high winds expected with gusts up to", max_gust, "km/h">>,
                               [max_wind_speed_kmh |-> max_wind,
                                max_wind_gust_kmh |-> max_gust,
                                threshold_kmh |-> threshold],
                               summary.date)))
        ELSE Return(None)

check_wind_alert(config, summary) ==
    IF ~HasKey(config, "wind") THEN Raise("KeyError")
    ELSE
    LET wind_config == Item(config, "wind")
        threshold == Get(wind_config, "threshold_kmh", 50)
        max_wind == summary.wind_speed_max
        max_gust == summary.wind_gust_max
        severity ==
            IF AtLeastTimes(max_wind, threshold, 15) \/ AtLeastTimes(max_gust, threshold, 15)
            THEN "severe"
            ELSE IF AtLeastTimes(max_wind, threshold, 12)
                    \/ AtLeastTimes(max_gust, threshold, 12)
                 THEN "high"
                 ELSE "moderate"
    IN  IF max_wind >= threshold \/ max_gust >= threshold
        THEN Return(Some(Alert(summary.location_name, "wind", severity,
                               <<"high winds expected with gusts up to", max_gust, "km/h">>,
                               [max_wind_speed_kmh |-> max_wind,
                                max_wind_gust_kmh |-> max_gust,
                                threshold_kmh |-> threshold],
                               summary.date)))
        ELSE Return(None)

\* Mutant: either sub-condition fires the rule
check_storm_alert_either(config, summary) ==
    IF ~HasKey(config, "storm") THEN Raise("KeyError")
    ELSE
    LET storm_config == Item(config, "storm")
        wind_threshold == Get(storm_config, "wind_gust_threshold_kmh", 70)
        precip_threshold == Get(storm_config, "precipitation_threshold_mm", 20)
        max_gust == summary.wind_gust_max
        total_precip == summary.precipitation_total
    IN  IF max_gust >= wind_threshold \/ total_precip >= precip_threshold
        THEN Return(Some(Alert(summary.location_name, "storm", "severe",
                               <<"storm conditions expected with strong winds up to",
                                 max_gust, "km/h and heavy precipitation", total_precip, "mm">>,
                               [max_wind_gust_kmh |-> max_gust,
                                total_precipitation_mm |-> total_precip,
                                wind_threshold_kmh |-> wind_threshold,
                                precipitation_threshold_mm |-> precip_threshold],
                               summary.date)))
        ELSE Return(None)

check_storm_alert(config, summary) ==
    IF ~HasKey(config, "storm") THEN Raise("KeyError")
    ELSE
    LET storm_config == Item(config, "storm")
        wind_threshold == Get(storm_config, "wind_gust_threshold_kmh", 70)
        precip_threshold == Get(storm_config, "precipitation_threshold_mm", 20)
        max_gust == summary.wind_gust_max
        total_precip == summary.precipitation_total
    IN  IF max_gust >= wind_threshold /\ total_precip >= precip_threshold
        THEN Return(Some(Alert(summary.location_name, "storm", "severe",
                               <<"storm conditions expected with strong winds up to",
                                 max_gust, "km/h and heavy precipitation", total_precip, "mm">>,
                               [max_wind_gust_kmh |-> max_gust,
                                total_precipitation_mm |-> total_precip,
                                wind_threshold_kmh |-> wind_threshold,
                                precipitation_threshold_mm |-> precip_threshold],
                               summary.date)))
        ELSE Return(None)

\* Mutant: the heat check comes first
check_temperature_alert_heat_first(config, summary) ==
    IF ~HasKey(config, "temperature") THEN Raise("KeyError")
    ELSE
    LET temp_config == Item(config, "temperature")
        min_threshold == Get(temp_config, "min_temp_c", None)
        max_threshold == Get(temp_config, "max_temp_c", None)
        temp_min == summary.temp_min
        temp_max == summary.temp_max
    IN  IF "max_temp_c" \in DOMAIN temp_config /\ temp_max >= max_threshold
        THEN Return(Some(Alert(summary.location_name, "temperature",
                               IF temp_max >= max_threshold + 5 THEN "high" ELSE "moderate",
                               <<"very hot temperatures expected with highs of", temp_max>>,
                               [max_temperature_c |-> temp_max,
                                threshold_c |-> max_threshold],
                               summary.date)))
        ELSE IF "min_temp_c" \in DOMAIN temp_config /\ temp_min <= min_threshold
        THEN Return(Some(Alert(summary.location_name, "temperature",
                               IF temp_min <= min_threshold - 5 THEN "high" ELSE "moderate",
                               <<"very cold temperatures expected with lows of", temp_min>>,
                               [min_temperature_c |-> temp_min,
                                threshold_c |-> min_threshold],
                               summary.date)))
        ELSE Return(None)

\* Mutant: the severity steps are exclusive at five degrees beyond the threshold
check_temperature_alert_exclusive_step(config, summary) ==
    IF ~HasKey(config, "temperature") THEN Raise("KeyError")
    ELSE
    LET temp_config == Item(config, "temperature")
        min_threshold == Get(temp_config, "min_temp_c", None)
        max_threshold == Get(temp_config, "max_temp_c", None)
        temp_min == summary.temp_min
        temp_max == summary.temp_max
    IN  IF "min_temp_c" \in DOMAIN temp_config /\ temp_min <= min_threshold
        THEN Return(Some(Alert(summary.location_name, "temperature",
                               IF temp_min < min_threshold - 5 THEN "high" ELSE "moderate",
                               <<"very cold temperatures expected with lows of", temp_min>>,
                               [min_temperature_c |-> temp_min,
                                threshold_c |-> min_threshold],
                               summary.date)))
        ELSE IF "max_temp_c" \in DOMAIN temp_config /\ temp_max >= max_threshold
        THEN Return(Some(Alert(summary.location_name, "temperature",
                               IF temp_max > max_threshold + 5 THEN "high" ELSE "moderate",
                               <<"very hot temperatures expected with highs of", temp_max>>,
                               [max_temperature_c |-> temp_max,
                                threshold_c |-> max_threshold],
                               summary.date)))
        ELSE Return(None)

\* A threshold is configured when its key is present (temp_config.get(key) is
\* then not None); a key present with a null value is not modelled.
check_temperature_alert(config, summary) ==
    IF ~HasKey(config, "temperature") THEN Raise("KeyError")
    ELSE
    LET temp_config == Item(config, "temperature")
        min_threshold == Get(temp_config, "min_temp_c", None)
        max_threshold == Get(temp_config, "max_temp_c", None)
        temp_min == summary.temp_min
        temp_max == summary.temp_max
    IN  IF "min_temp_c" \in DOMAIN temp_config /\ temp_min <= min_threshold
        THEN Return(Some(Alert(summary.location_name, "temperature",
                               IF temp_min <= min_threshold - 5 THEN "high" ELSE "moderate",
                               <<"very cold temperatures expected with lows of", temp_min>>,
                               [min_temperature_c |-> temp_min,
                                threshold_c |-> min_threshold],
                               summary.date)))
        ELSE IF "max_temp_c" \in DOMAIN temp_config /\ temp_max >= max_threshold
        THEN Return(Some(Alert(summary.location_name, "temperature",
                               IF temp_max >= max_threshold + 5 THEN "high" ELSE "moderate",
                               <<"very hot temperatures expected with highs of", temp_max>>,
                               [max_temperature_c |-> temp_max,
                                threshold_c |-> max_threshold],
                               summary.date)))
        ELSE Return(None)

\* Mutant: the severity tiers are exclusive at their boundaries
check_precipitation_alert_exclusive(config, summary) ==
    IF ~HasKey(config, "precipitation") THEN Raise("KeyError")
    ELSE
    LET precip_config == Item(config, "precipitation")
        threshold == Get(precip_config, "threshold_mm", 30)
        total_precip == summary.precipitation_total
        precip_prob == summary.precipitation_probability_max
        severity ==
            IF MoreThanTimes(total_precip, threshold, 20) THEN "severe"
            ELSE IF MoreThanTimes(total_precip, threshold, 15) THEN "high"
                 ELSE "moderate"
    IN  IF total_precip >= threshold
        THEN Return(Some(Alert(summary.location_name, "precipitation", severity,
                               <<"heavy precipitation expected", total_precip,
                                 "mm with", precip_prob, "% probability">>,
                               [total_precipitation_mm |-> total_precip,
                                probability_percent |-> precip_prob,
                                threshold_mm |-> threshold],
                               summary.date)))
        ELSE Return(None)

check_precipitation_alert(config, summary) ==
    IF ~HasKey(config, "precipitation") THEN Raise("KeyError")
    ELSE
    LET precip_config == Item(config, "precipitation")
        threshold == Get(precip_config, "threshold_mm", 30)
        total_precip == summary.precipitation_total
        precip_prob == summary.precipitation_probability_max
        severity ==
            IF AtLeastTimes(total_precip, threshold, 20) THEN "severe"
            ELSE IF AtLeastTimes(total_precip, threshold, 15) THEN "high"
                 ELSE "moderate"
    IN  IF total_precip >= threshold
        THEN Return(Some(Alert(summary.location_name, "precipitation", severity,
                               <<"heavy precipitation expected", total_precip,
                                 "mm with", precip_prob, "% probability">>,
                               [total_precipitation_mm |-> total_precip,
                                probability_percent |-> precip_prob,
                                threshold_mm |-> threshold],
                               summary.date)))
        ELSE Return(None)

\* The observed labels are iterated in the unspecified order of the summary's
\* list(set(...)); matching_conditions is kept as the set of its elements.
check_weather_conditions_alert(config, summary) ==
    IF ~HasKey(config, "weather_conditions") THEN Raise("KeyError")
    ELSE
    LET condition_config == Item(config, "weather_conditions")
        alert_conditions == Get(condition_config, "alert_on", <<>>)
        alert_conditions_lower ==
            [i \in 1..Len(alert_conditions) |-> Lower(alert_conditions[i])]
        forecast_conditions == {Lower(c) : c \in summary.weather_conditions}
        matching_conditions ==
            {c \in forecast_conditions :
                \E i \in 1..Len(alert_conditions_lower) :
                    Contains(c, alert_conditions_lower[i])}
    IN  IF matching_conditions # {}
        THEN Return(Some(Alert(summary.location_name, "weather_conditions", "moderate",
                               <<"adverse weather conditions expected:", matching_conditions>>,
                               [weather_conditions |-> matching_conditions,
                                alert_on |-> alert_conditions],
                               summary.date)))
        ELSE Return(None)

\* self.alert_config.get(alert_type, {}).get('enabled', False)
Enabled(config, alert_type) == Get(DictGet(config, alert_type, <<>>), "enabled", FALSE)

\* lines 164-190: the enabled rule types, evaluated in the written order
check_each_alert_type(config, summary) ==
    (IF Enabled(config, "wind")
        THEN check_wind_alert(config, summary).value ELSE <<>>)
    \o (IF Enabled(config, "storm")
        THEN check_storm_alert(config, summary).value ELSE <<>>)
    \o (IF Enabled(config, "temperature")
        THEN check_temperature_alert(config, summary).value ELSE <<>>)
    \o (IF Enabled(config, "precipitation")
        THEN check_precipitation_alert(config, summary).value ELSE <<>>)
    \o (IF Enabled(config, "weather_conditions")
        THEN check_weather_conditions_alert(config, summary).value ELSE <<>>)

\* The monitor is built from an empty api key ("dummy instance for method
\* access"); what WeatherMonitor.__init__ raises leaves check_alerts.
check_alerts(config, forecast_data, days, time_now) ==
    LET monitor == WeatherMonitor("")
    IN  IF monitor.raised # "none" THEN Raise(monitor.raised)
        ELSE LET summary == get_daily_summary(forecast_data, days, time_now)
             IN  IF summary = None THEN Return(<<>>)
                 ELSE Return(check_each_alert_type(config, summary[1]))

\* isinstance(alert_config, dict)
IsDict(v) == "scalar" \notin DOMAIN v

RECURSIVE check_rule_types(_, _, _, _)
\* lines 402-412: the items of self.alert_config from the i-th on, for one
\* forecast; an exception of check_alerts ends the loop
check_rule_types(config, forecast_data, time_now, i) ==
    IF i > Len(config) THEN Return(<<>>)
    ELSE LET rule_config == config[i].value
         IN  IF ~IsDict(rule_config) THEN check_rule_types(config, forecast_data, time_now, i + 1)
             ELSE IF ~Get(rule_config, "enabled", FALSE)
                  THEN check_rule_types(config, forecast_data, time_now, i + 1)
             ELSE LET days == Get(rule_config, "check_days_ahead", 1)
                      alerts == check_alerts(config, forecast_data, days, time_now)
                      rest == check_rule_types(config, forecast_data, time_now, i + 1)
                  IN  IF alerts.raised # "none" THEN alerts
                      ELSE IF rest.raised # "none" THEN rest
                           ELSE Return(alerts.value \o rest.value)

RECURSIVE check_locations(_, _, _, _)
\* lines 397-412: the forecasts from the n-th on
check_locations(config, forecast_data_list, time_now, n) ==
    IF n > Len(forecast_data_list) THEN Return(<<>>)
    ELSE LET alerts == check_rule_types(config, forecast_data_list[n], time_now, 1)
             rest == check_locations(config, forecast_data_list, time_now, n + 1)
         IN  IF alerts.raised # "none" THEN alerts
             ELSE IF rest.raised # "none" THEN rest
                  ELSE Return(alerts.value \o rest.value)

check_all_locations(config, forecast_data_list, time_now) ==
    check_locations(config, forecast_data_list, time_now, 1)

----------------------------------------------------------------------------
(* subscribers.py *)

\* The chat ids of the model, in the order of str comparison
ChatIdOrder == <<"7", "8", "9">>
ChatIds == {ChatIdOrder[i] : i \in 1..Len(ChatIdOrder)}

\* An entry of the file's "subscribers" list: a JSON string, or a JSON number
\* (a hand-edited file) whose str() is `text`
JsonString(text) == [json |-> "string", text |-> text]
JsonNumber(text) == [json |-> "number", text |-> text]
JsonValues == {JsonString(c) : c \in ChatIds} \cup {JsonNumber(c) : c \in ChatIds}
\* str(s)
Str(s) == s.text

\* subscribers.json does not exist
MissingFile == [kind |-> "missing", subscribers |-> <<>>]
\* subscribers.json holding {"subscribers": list}
JsonFile(list) == [kind |-> "json", subscribers |-> list]
\* subscribers.json that json.load or data.get fails on
CorruptFile == [kind |-> "corrupt", subscribers |-> <<>>]

RECURSIVE EntryLists(_)
\* the lists of at most n entries
EntryLists(n) ==
    IF n = 0 THEN {<<>>}
    ELSE EntryLists(n - 1)
         \cup {Append(l, v) : l \in {x \in EntryLists(n - 1) : Len(x) = n - 1},
                               v \in JsonValues}
\* what an operator may leave on disk between two calls
SubscriberFiles ==
    {MissingFile, CorruptFile} \cup {JsonFile(l) : l \in EntryLists(MaxFileEntries)}

\* How the write of _save_subscribers goes: it succeeds, open(..., 'w') is
\* refused, or the dump fails after the file was truncated
DiskOutcomes == {"ok", "refused", "torn"}

\* _load_subscribers
load_subscribers(file) ==
    IF file.kind = "missing" THEN {}
    ELSE IF file.kind = "corrupt" THEN {}
         ELSE {Str(file.subscribers[i]) : i \in 1..Len(file.subscribers)}

\* the elements of set in the order of `order`, from its i-th position on
RECURSIVE ListFrom(_, _, _)
ListFrom(set, order, i) ==
    IF i > Len(order) THEN <<>>
    ELSE (IF order[i] \in set THEN <<order[i]>> ELSE <<>>) \o ListFrom(set, order, i + 1)
\* sorted(list(subscribers))
Sorted(subscribers) == ListFrom(subscribers, ChatIdOrder, 1)

\* _save_subscribers: the outcome and the file it leaves
save_subscribers(subscribers, file, disk) ==
    IF disk = "ok"
    THEN [raised |-> "none",
          file |-> JsonFile([i \in 1..Cardinality(subscribers) |->
                                JsonString(Sorted(subscribers)[i])])]
    ELSE IF disk = "refused" THEN [raised |-> "OSError", file |-> file]
         ELSE [raised |-> "OSError", file |-> CorruptFile]

\* Mutant: the set is saved even when the chat id is already in it
add_subscriber_always_saves(chat_id, file, disk) ==
    LET subscribers == load_subscribers(file)
        saved == save_subscribers(subscribers \cup {chat_id}, file, disk)
    IN  IF saved.raised # "none"
        THEN [result |-> Raise(saved.raised), file |-> saved.file]
        ELSE [result |-> Return(<<chat_id \notin subscribers>>), file |-> saved.file]

\* add_subscriber: the outcome and the file it leaves
add_subscriber(chat_id, file, disk) ==
    LET subscribers == load_subscribers(file)
    IN  IF chat_id \in subscribers
        THEN [result |-> Return(<<FALSE>>), file |-> file]
        ELSE LET saved == save_subscribers(subscribers \cup {chat_id}, file, disk)
             IN  IF saved.raised # "none"
                 THEN [result |-> Raise(saved.raised), file |-> saved.file]
                 ELSE [result |-> Return(<<TRUE>>), file |-> saved.file]

\* remove_subscriber: the outcome and the file it leaves
remove_subscriber(chat_id, file, disk) ==
    LET subscribers == load_subscribers(file)
    IN  IF chat_id \notin subscribers
        THEN [result |-> Return(<<FALSE>>), file |-> file]
        ELSE LET saved == save_subscribers(subscribers \ {chat_id}, file, disk)
             IN  IF saved.raised # "none"
                 THEN [result |-> Raise(saved.raised), file |-> saved.file]
                 ELSE [result |-> Return(<<TRUE>>), file |-> saved.file]

\* get_subscribers, as the set of the list's elements
get_subscribers(file) == load_subscribers(file)

is_subscribed(chat_id, file) == chat_id \in load_subscribers(file)

\* get_all_chat_ids, as the set of the list's elements
get_all_chat_ids(config_chat_ids, file) ==
    get_subscribers(file) \cup {Str(config_chat_ids[i]) : i \in 1..Len(config_chat_ids)}

----------------------------------------------------------------------------
(* auto_subscribe.py *)

BotTokens == {"", "123:abc"}

\* A pending update: its update_id and, when it is a message, the number that
\* is the chat's id (update.message.chat.id)
Update(update_id, message) == [update_id |-> update_id, message |-> message]
Messages == {None} \cup {Some(JsonNumber(ChatIdOrder[i])) : i \in 1..2}
\* The update id Telegram gives the next update: one more than the last
\* pending one (the ids of confirmed updates are not kept: a batch that follows
\* a confirmation counts from 101 again)
next_update_id(pending) ==
    IF pending = <<>> THEN 101 ELSE pending[Len(pending)].update_id + 1

\* What Telegram answers to the two get_updates requests of one call while it
\* holds `pending`: the first request fails or returns the pending updates
\* (fewer than limit=100); the confirming request succeeds, fails before it
\* reaches Telegram (TelegramError) or loses its answer (TimedOut)
TelegramAnswers(pending) ==
    {[get_updates |-> Raise("TelegramError"), acknowledge |-> "none"]}
    \cup {[get_updates |-> Return(pending), acknowledge |-> a] :
             a \in {"none", "TelegramError", "TimedOut"}}

\* getUpdates with an offset confirms, and so forgets, the updates below it
confirm(pending, offset) == SelectSeq(pending, LAMBDA u : u.update_id >= offset)

\* One call made by process_pending_messages, as it is logged in its `calls`
Call(name, arg) == [call |-> name, arg |-> arg]

\* the orders in which `for chat_id in chat_ids` may visit a set
Orders(set) ==
    {o \in UNION {[1..Cardinality(set) -> set]} :
        \A i \in 1..Len(o), j \in 1..Len(o) : i # j => o[i] # o[j]}

\* the write that fails, counted among the writes of the call (0: none fails)
WriteFailures == 0..MaxUpdates
DiskAt(write, fails_at) == IF write = fails_at THEN "refused" ELSE "ok"

RECURSIVE add_each(_, _, _, _, _)
\* lines 46-51 from the i-th chat id on: the exception that ended the loop, the
\* file it leaves, new_subscribers and the add_subscriber calls made, as logged
add_each(order, i, file, new_subscribers, fails_at) ==
    IF i > Len(order)
    THEN [raised |-> "none", file |-> file, new_subscribers |-> new_subscribers,
          calls |-> <<>>]
    ELSE LET added == add_subscriber(order[i], file, DiskAt(new_subscribers + 1, fails_at))
             call == Call("add_subscriber", <<order[i]>>)
         IN  IF added.result.raised # "none"
             THEN [raised |-> added.result.raised, file |-> added.file,
                   new_subscribers |-> new_subscribers, calls |-> <<call>>]
             ELSE LET rest == add_each(order, i + 1, added.file,
                                       IF added.result.value[1] THEN new_subscribers + 1
                                       ELSE new_subscribers,
                                       fails_at)
                  IN  [rest EXCEPT !.calls = <<call>> \o @]

\* lines 39-43: the chat ids of the updates that are messages
chat_ids_of(updates) ==
    {Str(updates[i].message[1]) : i \in {j \in 1..Len(updates) : updates[j].message # None}}

\* A tail of process_pending_messages whose confirming request sits in a
\* finally block, sent even when add_subscriber raised
mark_processed_anyway(added, last_update_id, acknowledge) ==
    [result |-> IF added.raised # "none" \/ acknowledge # "none" THEN Return(<<0>>)
                ELSE Return(<<added.new_subscribers>>),
     file |-> added.file,
     offset |-> IF acknowledge = "TelegramError" THEN None ELSE Some(last_update_id + 1),
     calls |-> added.calls \o <<Call("get_updates", Some(last_update_id + 1))>>]

\* lines 53-67 once the loop over the chat ids has ended with `added`: if it
\* raised, the handler returns 0; else the confirming get_updates request is
\* sent with offset last_update_id + 1, and new_subscribers is returned unless
\* that request raises
mark_processed(added, last_update_id, acknowledge) ==
    IF added.raised # "none"
    THEN [result |-> Return(<<0>>), file |-> added.file, offset |-> None,
          calls |-> added.calls]
    ELSE [result |-> IF acknowledge # "none" THEN Return(<<0>>)
                     ELSE Return(<<added.new_subscribers>>),
          file |-> added.file,
          offset |-> IF acknowledge = "TelegramError" THEN None
                     ELSE Some(last_update_id + 1),
          calls |-> added.calls \o <<Call("get_updates", Some(last_update_id + 1))>>]

\* process_pending_messages: its outcome, the file it leaves, the offset that
\* reached Telegram and the calls it made to add_subscriber and, after the
\* first get_updates, to Telegram, in order (a get_updates call is logged with
\* its offset argument).  `order` is the order in which the set chat_ids is
\* visited.  Every exception raised inside the try block ends in the handler's
\* `return 0`; Bot(token="") raises before the try block.
process_pending_messages(bot_token, file, telegram, order, fails_at) ==
    IF bot_token = ""
    THEN [result |-> Raise("InvalidToken"), file |-> file, offset |-> None, calls |-> <<>>]
    ELSE IF telegram.get_updates.raised # "none" \/ telegram.get_updates.value = <<>>
    THEN [result |-> Return(<<0>>), file |-> file, offset |-> None, calls |-> <<>>]
    ELSE mark_processed(add_each(order, 1, file, 0, fails_at),
                        telegram.get_updates.value[Len(telegram.get_updates.value)].update_id,
                        telegram.acknowledge)

----------------------------------------------------------------------------
(* telegram_bot.py: TelegramNotifier *)

\* What Telegram answers during a run: to get_me, and to the sends (those to
\* the chats of `failing` raise TelegramError)
TelegramStates ==
    {[get_me |-> "TelegramError", failing |-> {}]}
    \cup {[get_me |-> "none", failing |-> f] :
             f \in {{}, {ChatIdOrder[1]}, ChatIds}}

\* TelegramNotifier.__init__
TelegramNotifier(bot_token, chat_ids) ==
    IF bot_token = "" THEN Raise("ValueError")
    ELSE IF chat_ids = <<>> THEN Raise("ValueError")
         ELSE Return(<<[bot_token |-> bot_token, chat_ids |-> chat_ids]>>)

\* One send attempt, as it is logged in `sent`; alert_index tells which alert of
\* the run the message is (0: none, the summary)
Attempt(chat_id, kind, alert_index, parse_mode, disable_notification, delivered) ==
    [chat_id |-> chat_id, kind |-> kind, alert_index |-> alert_index,
     parse_mode |-> parse_mode, disable_notification |-> disable_notification,
     delivered |-> delivered]

\* A send loop that gives up at the first chat id whose delivery fails
send_message_until_failure(notifier, has_bot, kind, alert_index, parse_mode, silent, telegram) ==
    IF ~has_bot /\ telegram.get_me # "none"
    THEN [raised |-> telegram.get_me, attempts |-> <<>>]
    ELSE LET failures == {i \in 1..Len(notifier.chat_ids) :
                             notifier.chat_ids[i] \in telegram.failing}
             last == IF failures = {} THEN Len(notifier.chat_ids)
                     ELSE CHOOSE i \in failures : \A j \in failures : i <= j
         IN  [raised |-> "none",
              attempts |->
                  [i \in 1..last |->
                      Attempt(notifier.chat_ids[i], kind, alert_index, parse_mode, silent,
                              notifier.chat_ids[i] \notin telegram.failing)]]

\* TelegramNotifier.send_message: initialize() first when there is no bot yet
\* (a TelegramError of get_me leaves the call), then one attempt per chat id in
\* the order of chat_ids, a TelegramError of a send being caught; `silent` is
\* disable_notification
send_message(notifier, has_bot, kind, alert_index, parse_mode, silent, telegram) ==
    IF ~has_bot /\ telegram.get_me # "none"
    THEN [raised |-> telegram.get_me, attempts |-> <<>>]
    ELSE [raised |-> "none",
          attempts |->
              [i \in 1..Len(notifier.chat_ids) |->
                  Attempt(notifier.chat_ids[i], kind, alert_index, parse_mode, silent,
                          notifier.chat_ids[i] \notin telegram.failing)]]

\* The dictionary send_message returns: the chat ids delivered to, and one
\* entry per chat id whose send raised TelegramError, both in order of attempt
results_of(attempts) ==
    [success |-> LET delivered == SelectSeq(attempts, LAMBDA a : a.delivered)
                 IN  [i \in 1..Len(delivered) |-> delivered[i].chat_id],
     failed |-> LET refused == SelectSeq(attempts, LAMBDA a : ~a.delivered)
                IN  [i \in 1..Len(refused) |->
                        [chat_id |-> refused[i].chat_id, error |-> "TelegramError"]]]

\* A send_alert that is silent for severity low only
send_alert_silent_when_low(notifier, has_bot, alert, alert_index, telegram) ==
    send_message(notifier, has_bot, "alert", alert_index, "Markdown",
                 alert.severity = "low", telegram)

\* TelegramNotifier.send_alert
send_alert(notifier, has_bot, alert, alert_index, telegram) ==
    send_message(notifier, has_bot, "alert", alert_index, "Markdown",
                 alert.severity \in {"low", "moderate"}, telegram)

RECURSIVE send_alerts_from(_, _, _, _)
\* TelegramNotifier.send_alerts, lines 143-149 from the i-th alert on
send_alerts_from(notifier, alerts, i, telegram) ==
    IF i > Len(alerts) THEN [raised |-> "none", attempts |-> <<>>]
    ELSE LET results == send_alert(notifier, i > 1, alerts[i], i, telegram)
         IN  IF results.raised # "none" THEN results
             ELSE LET rest == send_alerts_from(notifier, alerts, i + 1, telegram)
                  IN  [raised |-> rest.raised,
                       attempts |-> results.attempts \o rest.attempts]

send_alerts(notifier, alerts, telegram) == send_alerts_from(notifier, alerts, 1, telegram)

----------------------------------------------------------------------------
(* main.py: check_weather_and_send_alerts *)

\* What the weather API answers for each configured location, in the order of
\* the configuration: a forecast, or a WeatherAPIError of get_forecast
LocationAnswers(name) ==
    {[name |-> name, answer |-> Raise("WeatherAPIError")]}
    \cup {[name |-> name, answer |-> Return(<<Forecast(name, <<Sample(Noon(1), p)>>)>>)] :
             p \in {Calm, Gale}}
WeatherAnswers ==
    {<<a>> : a \in LocationAnswers("home")}
    \cup {<<a, b>> : a \in LocationAnswers("home"),
                      b \in {x \in LocationAnswers("cabin") :
                                x.answer.raised # "none"
                                \/ x.answer.value[1].forecasts[1].wind_gust > 0}}

RECURSIVE get_forecasts_from_until_failure(_, _)
\* A loop that stops at the first location whose fetch fails
get_forecasts_from_until_failure(weather, i) ==
    IF i > Len(weather) THEN <<>>
    ELSE IF weather[i].answer.raised # "none" THEN <<>>
    ELSE weather[i].answer.value \o get_forecasts_from_until_failure(weather, i + 1)

RECURSIVE get_forecasts_from(_, _)
\* WeatherMonitor.get_forecasts_for_locations from the i-th location on: a
\* location whose get_forecast raises WeatherAPIError is left out
get_forecasts_from(weather, i) ==
    IF i > Len(weather) THEN <<>>
    ELSE (IF weather[i].answer.raised # "none" THEN <<>> ELSE weather[i].answer.value)
         \o get_forecasts_from(weather, i + 1)
get_forecasts_for_locations(weather) == get_forecasts_from(weather, 1)

\* The loaded configuration: the telegram section, the alerts section, the
\* openweathermap api key (absent: None) and the locations
Config(bot_token, chat_ids, alerts, api_key) ==
    [telegram |-> [bot_token |-> bot_token, chat_ids |-> chat_ids],
     alerts |-> alerts, api_key |-> api_key]
RunAlertConfigs ==
    {<<>>,
     Dict1("wind", [enabled |-> FALSE, threshold_kmh |-> 50]),
     Dict1("wind", [enabled |-> TRUE, threshold_kmh |-> 50]),
     ConfigWith(AlertTypes, AlertTypeSet)}
\* what config_loader.load() gives: ConfigurationError, or a valid configuration
ConfigLoads ==
    {Raise("ConfigurationError")}
    \cup {Return(<<Config("123:abc", <<JsonString("7")>>, a, Some("owm-key"))>>) :
             a \in RunAlertConfigs}
    \cup {Return(<<Config("123:abc", <<JsonNumber("8"), JsonString("7")>>,
                          Dict1("wind", [enabled |-> FALSE, threshold_kmh |-> 50]),
                          Some("owm-key"))>>),
           Return(<<Config("", <<JsonString("7")>>, <<>>, Some("owm-key"))>>),
           Return(<<Config("123:abc", <<JsonString("7")>>, <<>>, None)>>),
           Return(<<Config("123:abc", <<JsonString("7")>>, <<>>, Some(""))>>)}

\* the dev_chat_id argument: None, or a string
DevChatIds == {None, Some(""), Some(ChatIdOrder[Len(ChatIdOrder)])}

\* the orders list(set) may give the chat ids
ListOrders == {ChatIdOrder, Reversed(ChatIdOrder)}

\* Mutant: the subscribers and the configured chats are recipients in dev mode too
recipients_with_dev_added(dev_chat_id, config_chat_ids, file, order) ==
    IF dev_chat_id # None /\ dev_chat_id # Some("")
    THEN <<dev_chat_id[1]>>
         \o ListFrom(get_all_chat_ids(config_chat_ids, file) \ {dev_chat_id[1]}, order, 1)
    ELSE ListFrom(get_all_chat_ids(config_chat_ids, file), order, 1)

\* lines 365-371: all_chat_ids
recipients(dev_chat_id, config_chat_ids, file, order) ==
    IF dev_chat_id # None /\ dev_chat_id # Some("")
    THEN <<dev_chat_id[1]>>
    ELSE ListFrom(get_all_chat_ids(config_chat_ids, file), order, 1)

\* what the run leaves: its return value, the exception that was caught (or
\* "none"), subscribers.json, the alerts it generated and the send attempts
Ran(value, error, file, alerts, attempts) ==
    [result |-> Return(<<value>>), error |-> error, file |-> file,
     alerts |-> alerts, attempts |-> attempts]

\* lines 379-410: the notifier is built and the alerts, or else the summary,
\* are sent; the return value is len(alerts)
notify(config, all_chat_ids, alerts, file, telegram) ==
    LET notifier == TelegramNotifier(config.telegram.bot_token, all_chat_ids)
    IN  IF notifier.raised # "none" THEN Ran(0 - 1, notifier.raised, file, alerts, <<>>)
        ELSE LET results ==
                     IF alerts # <<>> THEN send_alerts(notifier.value[1], alerts, telegram)
                     ELSE send_message(notifier.value[1], FALSE, "summary", 0, "HTML",
                                       FALSE, telegram)
             IN  IF results.raised # "none"
                 THEN Ran(0 - 1, results.raised, file, alerts, results.attempts)
                 ELSE Ran(Len(alerts), "none", file, alerts, results.attempts)

\* check_weather_and_send_alerts.  Every exception of the try block is caught
\* by one of the three handlers, which return -1.  The Claude commentary of the
\* summary text and the logging are left out.
check_weather_and_send_alerts(config_load, dev_chat_id, file, pending, weather, telegram, order, time_now) ==
    IF config_load.raised # "none" THEN Ran(0 - 1, config_load.raised, file, <<>>, <<>>)
    ELSE
    LET config == config_load.value[1]
        new_subs == process_pending_messages(config.telegram.bot_token, file, pending,
                                             ListFrom(chat_ids_of(pending.get_updates.value),
                                                      order, 1), 0)
    IN  IF new_subs.result.raised # "none"
        THEN Ran(0 - 1, new_subs.result.raised, new_subs.file, <<>>, <<>>)
        ELSE IF config.api_key = None
        THEN Ran(0 - 1, "ConfigurationError", new_subs.file, <<>>, <<>>)
        ELSE IF WeatherMonitor(config.api_key[1]).raised # "none"
        THEN Ran(0 - 1, WeatherMonitor(config.api_key[1]).raised, new_subs.file, <<>>, <<>>)
        ELSE
        LET run_forecasts == get_forecasts_for_locations(weather)
        IN  IF run_forecasts = <<>> THEN Ran(0, "none", new_subs.file, <<>>, <<>>)
            ELSE
            LET alerts == check_all_locations(config.alerts, run_forecasts, time_now)
            IN  IF alerts.raised # "none"
                THEN Ran(0 - 1, alerts.raised, new_subs.file, <<>>, <<>>)
                ELSE
                LET all_chat_ids == recipients(dev_chat_id, config.telegram.chat_ids,
                                               new_subs.file, order)
                IN  IF all_chat_ids = <<>>
                    THEN Ran(0, "none", new_subs.file, alerts.value, <<>>)
                    ELSE notify(config, all_chat_ids, alerts.value, new_subs.file, telegram)

----------------------------------------------------------------------------
(* What the caller's objects hold after a call.  The functions receive         *)
(* references to the caller's forecast dict(s) and to self.alert_config; each   *)
(* operator gives the object as the function's statements leave it.            *)

\* Mutant: the day's buckets are stored back into the forecast
forecast_after_get_daily_summary_filtered(forecast_data, days, time_now) ==
    [forecast_data EXCEPT
        !.forecasts = day_forecasts(forecast_data, Date(time_now) + days)]

\* weather_monitor.py lines 194-220: forecast_data['forecasts'] is read into a
\* new list, the summary is a new dict; nothing is stored into forecast_data
forecast_after_get_daily_summary(forecast_data, days, time_now) == forecast_data

\* alert_manager.py lines 150-190: the forecast goes to get_daily_summary, the
\* rule evaluators read self.alert_config and the summary and build Alert
\* objects; the constructor's exception leaves both as they were
forecast_after_check_alerts(config, forecast_data, days, time_now) ==
    IF WeatherMonitor("").raised # "none" THEN forecast_data
    ELSE forecast_after_get_daily_summary(forecast_data, days, time_now)
alert_config_after_check_alerts(config, forecast_data, days, time_now) == config

\* alert_manager.py lines 395-415: the list and self.alert_config are iterated,
\* each forecast goes to check_alerts, the alerts go to the new list all_alerts
forecasts_after_check_all_locations(config, forecast_data_list, time_now) ==
    [n \in 1..Len(forecast_data_list) |->
        IF \E i \in 1..Len(config) :
              IsDict(config[i].value) /\ Get(config[i].value, "enabled", FALSE)
        THEN forecast_after_check_alerts(config, forecast_data_list[n], 1, time_now)
        ELSE forecast_data_list[n]]
alert_config_after_check_all_locations(config, forecast_data_list, time_now) == config

----------------------------------------------------------------------------
(* State machine *)

NoForecast == Forecast("", <<>>)
NoConfig == <<>>
NoResult == Return(<<>>)
NoArgs == <<>>

Idle ==
    /\ pc = "idle"
    /\ op = "none"
    /\ now = 0
    /\ forecast = NoForecast
    /\ days_ahead = 0
    /\ alert_config = NoConfig
    /\ daily_summary = None
    /\ result = NoResult
    /\ forecasts = <<>>
    /\ subscribers_file = MissingFile
    /\ subscribers_before = MissingFile
    /\ args = NoArgs
    /\ sent = <<>>
    /\ pending_updates = <<>>

Init == Idle

\* the call's frame is dropped; subscribers.json stays on disk and the
\* unconfirmed updates stay with Telegram
Finish ==
    /\ pc = "done"
    /\ pc' = "idle"
    /\ op' = "none"
    /\ now' = 0
    /\ forecast' = NoForecast
    /\ days_ahead' = 0
    /\ alert_config' = NoConfig
    /\ daily_summary' = None
    /\ result' = NoResult
    /\ forecasts' = <<>>
    /\ subscribers_before' = MissingFile
    /\ args' = NoArgs
    /\ sent' = <<>>
    /\ UNCHANGED <<subscribers_file, pending_updates>>

\* monitor.get_daily_summary(forecast, days_ahead) on a monitor that has a key
CallGetDailySummary ==
    /\ pc = "idle"
    /\ \E f \in Forecasts, d \in DayOffsets, t \in Nows :
        /\ forecast' = f
        /\ days_ahead' = d
        /\ now' = t
        /\ result' = Return(get_daily_summary(f, d, t))
    /\ pc' = "done"
    /\ op' = "get_daily_summary"
    /\ UNCHANGED <<alert_config, daily_summary>>
    /\ UNCHANGED outside

NextAggregator == CallGetDailySummary \/ Finish

SpecAggregator == Init /\ [][NextAggregator]_vars

\* the summary handed to a rule evaluator: that of forecast f for the next day
SummaryOf(f) == get_daily_summary(f, 1, EvalNow)

\* AlertManager(config)._check_<rule>_alert(summary) has ended with `outcome`
CallRule(name, config, f, outcome) ==
    /\ daily_summary' = SummaryOf(f)
    /\ result' = outcome
    /\ alert_config' = config
    /\ forecast' = f
    /\ days_ahead' = 1
    /\ now' = EvalNow
    /\ pc' = "done"
    /\ op' = name
    /\ UNCHANGED outside

CallCheckWindAlert ==
    /\ pc = "idle"
    /\ \E c \in WindConfigs, p \in WindProfiles :
        LET config == Dict1("wind", c)
            f == OneSampleForecast(p)
        IN  CallRule("_check_wind_alert", config, f,
                     check_wind_alert(config, SummaryOf(f)[1]))

CallCheckStormAlert ==
    /\ pc = "idle"
    /\ \E c \in StormConfigs, p \in StormProfiles :
        LET config == Dict1("storm", c)
            f == OneSampleForecast(p)
        IN  CallRule("_check_storm_alert", config, f,
                     check_storm_alert(config, SummaryOf(f)[1]))

CallCheckTemperatureAlert ==
    /\ pc = "idle"
    /\ \E c \in TemperatureConfigs, p \in TemperatureProfiles :
        LET config == Dict1("temperature", c)
            f == OneSampleForecast(p)
        IN  CallRule("_check_temperature_alert", config, f,
                     check_temperature_alert(config, SummaryOf(f)[1]))

CallCheckPrecipitationAlert ==
    /\ pc = "idle"
    /\ \E c \in PrecipitationConfigs, p \in PrecipitationProfiles :
        LET config == Dict1("precipitation", c)
            f == OneSampleForecast(p)
        IN  CallRule("_check_precipitation_alert", config, f,
                     check_precipitation_alert(config, SummaryOf(f)[1]))

CallCheckWeatherConditionsAlert ==
    /\ pc = "idle"
    /\ \E c \in WeatherConditionsConfigs, f \in ConditionForecasts :
        LET config == Dict1("weather_conditions", c)
        IN  CallRule("_check_weather_conditions_alert", config, f,
                     check_weather_conditions_alert(config, SummaryOf(f)[1]))

\* a rule evaluator called on a manager whose configuration lacks its type
CallRuleWithoutConfig ==
    /\ pc = "idle"
    /\ LET f == OneSampleForecast(Calm)
           m == SummaryOf(f)[1]
       IN  \E call \in {<<"_check_wind_alert", check_wind_alert(<<>>, m)>>,
                        <<"_check_storm_alert", check_storm_alert(<<>>, m)>>,
                        <<"_check_temperature_alert", check_temperature_alert(<<>>, m)>>,
                        <<"_check_precipitation_alert", check_precipitation_alert(<<>>, m)>>,
                        <<"_check_weather_conditions_alert",
                          check_weather_conditions_alert(<<>>, m)>>} :
               CallRule(call[1], <<>>, f, call[2])

\* AlertManager(config).check_alerts(forecast_data, days_ahead)
CallCheckAlerts ==
    /\ pc = "idle"
    /\ \E c \in AlertConfigs, f \in CheckedForecasts, d \in DayOffsets, t \in Nows :
        /\ alert_config' = c
        /\ forecast' = f
        /\ days_ahead' = d
        /\ now' = t
        /\ result' = check_alerts(c, f, d, t)
    /\ pc' = "done"
    /\ op' = "check_alerts"
    /\ UNCHANGED daily_summary
    /\ UNCHANGED outside

\* AlertManager(config).check_all_locations(forecast_data_list)
CallCheckAllLocations ==
    /\ pc = "idle"
    /\ \E c \in AllLocationsConfigs, l \in ForecastLists :
        /\ alert_config' = c
        /\ forecasts' = l
        /\ result' = check_all_locations(c, l, EvalNow)
    /\ now' = EvalNow
    /\ pc' = "done"
    /\ op' = "check_all_locations"
    /\ UNCHANGED <<forecast, days_ahead, daily_summary,
                   subscribers_file, subscribers_before, args, sent>>
    /\ UNCHANGED pending_updates

NextAllLocations == CallCheckAllLocations \/ Finish

SpecAllLocations == Init /\ [][NextAllLocations]_vars

\* The calls in two steps: the call is entered with its arguments (pc is
\* "called"), then its body runs and leaves the result and the objects.
EnterGetDailySummary ==
    /\ pc = "idle"
    /\ \E f \in Forecasts, d \in DayOffsets, t \in Nows :
        /\ forecast' = f
        /\ days_ahead' = d
        /\ now' = t
    /\ pc' = "called"
    /\ op' = "get_daily_summary"
    /\ UNCHANGED <<alert_config, daily_summary, result>>
    /\ UNCHANGED outside

RunGetDailySummary ==
    /\ pc = "called"
    /\ op = "get_daily_summary"
    /\ result' = Return(get_daily_summary(forecast, days_ahead, now))
    /\ forecast' = forecast_after_get_daily_summary(forecast, days_ahead, now)
    /\ pc' = "done"
    /\ UNCHANGED <<op, now, days_ahead, alert_config, daily_summary>>
    /\ UNCHANGED outside

EnterCheckAlerts ==
    /\ pc = "idle"
    /\ \E c \in AlertConfigs, f \in CheckedForecasts, d \in DayOffsets, t \in Nows :
        /\ alert_config' = c
        /\ forecast' = f
        /\ days_ahead' = d
        /\ now' = t
    /\ pc' = "called"
    /\ op' = "check_alerts"
    /\ UNCHANGED <<daily_summary, result>>
    /\ UNCHANGED outside

RunCheckAlerts ==
    /\ pc = "called"
    /\ op = "check_alerts"
    /\ result' = check_alerts(alert_config, forecast, days_ahead, now)
    /\ forecast' = forecast_after_check_alerts(alert_config, forecast, days_ahead, now)
    /\ alert_config' =
          alert_config_after_check_alerts(alert_config, forecast, days_ahead, now)
    /\ pc' = "done"
    /\ UNCHANGED <<op, now, days_ahead, daily_summary>>
    /\ UNCHANGED outside

EnterCheckAllLocations ==
    /\ pc = "idle"
    /\ \E c \in AllLocationsConfigs, l \in ForecastLists :
        /\ alert_config' = c
        /\ forecasts' = l
    /\ now' = EvalNow
    /\ pc' = "called"
    /\ op' = "check_all_locations"
    /\ UNCHANGED <<forecast, days_ahead, daily_summary, result,
                   subscribers_file, subscribers_before, args, sent>>
    /\ UNCHANGED pending_updates

RunCheckAllLocations ==
    /\ pc = "called"
    /\ op = "check_all_locations"
    /\ result' = check_all_locations(alert_config, forecasts, now)
    /\ forecasts' = forecasts_after_check_all_locations(alert_config, forecasts, now)
    /\ alert_config' = alert_config_after_check_all_locations(alert_config, forecasts, now)
    /\ pc' = "done"
    /\ UNCHANGED <<op, now, forecast, days_ahead, daily_summary,
                   subscribers_file, subscribers_before, args, sent>>
    /\ UNCHANGED pending_updates

NextFrame ==
    \/ EnterGetDailySummary
    \/ RunGetDailySummary
    \/ EnterCheckAlerts
    \/ RunCheckAlerts
    \/ EnterCheckAllLocations
    \/ RunCheckAllLocations
    \/ Finish

SpecFrame == Init /\ [][NextFrame]_vars

\* somebody edits, deletes or damages subscribers.json between two calls
EditSubscribersFile ==
    /\ pc = "idle"
    /\ subscribers_file' \in SubscriberFiles
    /\ UNCHANGED <<pc, op, now, forecast, days_ahead, alert_config, daily_summary,
                   result, forecasts, subscribers_before, args, sent>>
    /\ UNCHANGED pending_updates

\* a call of subscribers.py has ended with out.result and left out.file
CallSubscribers(name, chat_id, disk, out) ==
    /\ subscribers_before' = subscribers_file
    /\ subscribers_file' = out.file
    /\ result' = out.result
    /\ args' = [chat_id |-> chat_id, disk |-> disk]
    /\ pc' = "done"
    /\ op' = name
    /\ UNCHANGED <<now, forecast, days_ahead, alert_config, daily_summary, forecasts, sent>>
    /\ UNCHANGED pending_updates

CallAddSubscriber ==
    /\ pc = "idle"
    /\ \E c \in ChatIds, disk \in DiskOutcomes :
        CallSubscribers("add_subscriber", c, disk, add_subscriber(c, subscribers_file, disk))

CallRemoveSubscriber ==
    /\ pc = "idle"
    /\ \E c \in ChatIds, disk \in DiskOutcomes :
        CallSubscribers("remove_subscriber", c, disk,
                        remove_subscriber(c, subscribers_file, disk))

CallIsSubscribed ==
    /\ pc = "idle"
    /\ \E c \in ChatIds :
        CallSubscribers("is_subscribed", c, "ok",
                        [result |-> Return(<<is_subscribed(c, subscribers_file)>>),
                         file |-> subscribers_file])

NextSubscribers ==
    \/ EditSubscribersFile
    \/ CallAddSubscriber
    \/ CallRemoveSubscriber
    \/ CallIsSubscribed
    \/ Finish

SpecSubscribers == Init /\ [][NextSubscribers]_vars

\* asyncio.run(process_pending_messages(bot_token))
CallProcessPendingMessages ==
    /\ pc = "idle"
    /\ \E token \in BotTokens, telegram \in TelegramAnswers(pending_updates),
          fails_at \in WriteFailures :
        \E order \in Orders(chat_ids_of(telegram.get_updates.value)) :
            LET out == process_pending_messages(token, subscribers_file, telegram,
                                                order, fails_at)
            IN  /\ subscribers_before' = subscribers_file
                /\ subscribers_file' = out.file
                /\ result' = out.result
                /\ pending_updates' = IF out.offset = None THEN pending_updates
                                      ELSE confirm(pending_updates, out.offset[1])
                /\ args' = [bot_token |-> token, telegram |-> telegram, order |-> order,
                            fails_at |-> fails_at, offset |-> out.offset,
                            calls |-> out.calls, pending_before |-> pending_updates]
    /\ pc' = "done"
    /\ op' = "process_pending_messages"
    /\ UNCHANGED <<now, forecast, days_ahead, alert_config, daily_summary, forecasts, sent>>

\* Somebody writes to the bot, or Telegram has another update for it: the
\* update waits at Telegram until a getUpdates request confirms it
ReceiveUpdate ==
    /\ pc = "idle"
    /\ Len(pending_updates) < MaxUpdates
    /\ \E message \in Messages :
        pending_updates' = Append(pending_updates,
                                  Update(next_update_id(pending_updates), message))
    /\ UNCHANGED <<pc, op, now, forecast, days_ahead, alert_config, daily_summary, result,
                   forecasts, subscribers_file, subscribers_before, args, sent>>

NextAutoSubscribe ==
    \/ EditSubscribersFile
    \/ ReceiveUpdate
    \/ CallProcessPendingMessages
    \/ Finish

SpecAutoSubscribe == Init /\ [][NextAutoSubscribe]_vars

\* what Telegram holds for the bot when a run begins
RunPending ==
    {[get_updates |-> Raise("TelegramError"), acknowledge |-> "none"]}
    \cup {[get_updates |-> Return([i \in 1..Len(m) |-> Update(100 + i, m[i])]),
            acknowledge |-> a] :
             m \in UNION {[1..n -> {None, Some(JsonNumber(ChatIdOrder[2]))}] :
                           n \in 0..MaxRunUpdates},
             a \in {"none", "TelegramError"}}

\* asyncio.run(check_weather_and_send_alerts(config_loader, verbose, dev_chat_id))
CallCheckWeatherAndSendAlerts ==
    /\ pc = "idle"
    /\ \E config_load \in ConfigLoads, dev_chat_id \in DevChatIds, pending \in RunPending,
          weather \in WeatherAnswers, telegram \in TelegramStates, order \in ListOrders :
        LET out == check_weather_and_send_alerts(config_load, dev_chat_id, subscribers_file,
                                                 pending, weather, telegram, order, EvalNow)
        IN  /\ subscribers_before' = subscribers_file
            /\ subscribers_file' = out.file
            /\ result' = out.result
            /\ sent' = out.attempts
            /\ forecasts' = get_forecasts_for_locations(weather)
            /\ alert_config' =
                  IF config_load.raised = "none" THEN config_load.value[1].alerts ELSE NoConfig
            /\ args' = [config_load |-> config_load, dev_chat_id |-> dev_chat_id,
                        pending |-> pending, weather |-> weather, telegram |-> telegram,
                        order |-> order, error |-> out.error, alerts |-> out.alerts]
    /\ now' = EvalNow
    /\ pc' = "done"
    /\ op' = "check_weather_and_send_alerts"
    /\ UNCHANGED <<forecast, days_ahead, daily_summary>>
    /\ UNCHANGED pending_updates

NextRun == CallCheckWeatherAndSendAlerts \/ Finish

SpecRun == Init /\ [][NextRun]_vars

\* The answers of the weather API to get_forecast for up to MaxLocations
\* configured locations: a WeatherAPIError or a forecast of one sample
FetchAnswers ==
    UNION {{w \in [1..n -> UNION {LocationAnswers(name) \cup
                                     {[name |-> name,
                                       answer |-> Return(<<Forecast(name, <<Sample(Noon(d), p)>>)>>)] :
                                         d \in 0..MaxDay, p \in {Calm, Gale}} :
                                  name \in {"home", "cabin"}}] :
              \A i \in 1..n : w[i].name = (IF i % 2 = 1 THEN "home" ELSE "cabin")} :
           n \in 1..MaxLocations}

\* monitor.get_forecasts_for_locations(locations)
CallGetForecastsForLocations ==
    /\ pc = "idle"
    /\ \E weather \in FetchAnswers :
        /\ args' = [weather |-> weather]
        /\ result' = Return(get_forecasts_for_locations(weather))
    /\ pc' = "done"
    /\ op' = "get_forecasts_for_locations"
    /\ UNCHANGED <<now, forecast, days_ahead, alert_config, daily_summary, forecasts,
                   subscribers_file, subscribers_before, sent>>
    /\ UNCHANGED pending_updates

NextFetch == CallGetForecastsForLocations \/ Finish

SpecFetch == Init /\ [][NextFetch]_vars

\* The chat id lists a notifier is built with, and the states of Telegram it
\* may meet: get_me answering or not, any set of chat ids refusing delivery
ChatIdLists == UNION {[1..n -> ChatIds] : n \in 1..MaxChatIds}
SendStates == {[get_me |-> g, failing |-> f] : g \in {"none", "TelegramError"},
                                                f \in SUBSET ChatIds}

\* notifier.send_message(message, parse_mode, disable_notification) on a
\* notifier whose bot is or is not initialised yet
CallSendMessage ==
    /\ pc = "idle"
    /\ \E chat_ids \in ChatIdLists, has_bot \in BOOLEAN, telegram \in SendStates,
          parse_mode \in {"Markdown", "HTML"}, silent \in BOOLEAN :
        LET notifier == TelegramNotifier("123:abc", chat_ids).value[1]
            out == send_message(notifier, has_bot, "message", 0, parse_mode, silent, telegram)
        IN  /\ args' = [chat_ids |-> chat_ids, has_bot |-> has_bot, telegram |-> telegram,
                        parse_mode |-> parse_mode, silent |-> silent]
            /\ sent' = out.attempts
            /\ result' = IF out.raised # "none" THEN Raise(out.raised)
                         ELSE Return(<<results_of(out.attempts)>>)
    /\ pc' = "done"
    /\ op' = "send_message"
    /\ UNCHANGED <<now, forecast, days_ahead, alert_config, daily_summary, forecasts,
                   subscribers_file, subscribers_before>>
    /\ UNCHANGED pending_updates

\* The severities the rules give an alert, and the alert lists handed to
\* send_alerts
AlertLists ==
    UNION {[1..n -> {Alert("home", "wind", severity, <<>>, <<>>, 1) :
                        severity \in {"low", "moderate", "high", "severe"}}] :
           n \in 0..MaxAlerts}

\* notifier.send_alerts(alerts) on a notifier just built
CallSendAlerts ==
    /\ pc = "idle"
    /\ \E chat_ids \in ChatIdLists, alerts \in AlertLists, telegram \in SendStates :
        LET notifier == TelegramNotifier("123:abc", chat_ids).value[1]
            out == send_alerts(notifier, alerts, telegram)
        IN  /\ args' = [chat_ids |-> chat_ids, alerts |-> alerts, telegram |-> telegram]
            /\ sent' = out.attempts
            /\ result' = IF out.raised # "none" THEN Raise(out.raised)
                         ELSE Return(<<results_of(out.attempts)>>)
    /\ pc' = "done"
    /\ op' = "send_alerts"
    /\ UNCHANGED <<now, forecast, days_ahead, alert_config, daily_summary, forecasts,
                   subscribers_file, subscribers_before>>
    /\ UNCHANGED pending_updates

NextNotifier == CallSendMessage \/ CallSendAlerts \/ Finish

SpecNotifier == Init /\ [][NextNotifier]_vars

NextClassifier ==
    \/ CallCheckWindAlert
    \/ CallCheckStormAlert
    \/ CallCheckTemperatureAlert
    \/ CallCheckPrecipitationAlert
    \/ CallCheckWeatherConditionsAlert
    \/ CallRuleWithoutConfig
    \/ CallCheckAlerts
    \/ Finish

SpecClassifier == Init /\ [][NextClassifier]_vars

----------------------------------------------------------------------------
(* Properties of the daily aggregator *)

SummaryReturned == pc = "done" /\ op = "get_daily_summary"

\* the positions of the forecast's samples whose date is today + days_ahead
Matching ==
    {i \in 1..Len(forecast.forecasts) :
        Date(forecast.forecasts[i].time) = Date(now) + days_ahead}

RECURSIVE SumOver(_, _)
SumOver(I, key) ==
    IF I = {} THEN 0
    ELSE LET i == CHOOSE j \in I : TRUE
         IN  forecast.forecasts[i][key] + SumOver(I \ {i}, key)

IsMaxOver(v, I, key) ==
    /\ \E i \in I : forecast.forecasts[i][key] = v
    /\ \A i \in I : forecast.forecasts[i][key] <= v

IsMinOver(v, I, key) ==
    /\ \E i \in I : forecast.forecasts[i][key] = v
    /\ \A i \in I : forecast.forecasts[i][key] >= v

\* C2: get_daily_summary raises nothing; it returns None exactly when no
\* sample of the forecast (an empty forecast included) has the date
\* today + days_ahead, and a summary whenever at least one sample has it.
C2_AbsentIffNoMatch ==
    SummaryReturned =>
        /\ result.raised = "none"
        /\ (result.value = None) <=> (Matching = {})
        /\ Len(result.value) <= 1

C2_Witness ==
    /\ SummaryReturned
    /\ forecast.forecasts # <<>>
    /\ Matching = {}
    /\ result.value = None

\* C3: the summary's temp_max is the maximum of the target day's per-sample
\* temp_max values and its temp_min the minimum of their temp_min values.
C3_TempExtremes ==
    (SummaryReturned /\ result.value # None) =>
        /\ IsMaxOver(result.value[1].temp_max, Matching, "temp_max")
        /\ IsMinOver(result.value[1].temp_min, Matching, "temp_min")

\* two samples on the target day with different extremes, the reported
\* maximum above every point temperature of the day
C3_Witness ==
    /\ SummaryReturned
    /\ result.value # None
    /\ \E i, j \in Matching :
          /\ forecast.forecasts[i].temp_max < forecast.forecasts[j].temp_max
          /\ forecast.forecasts[i].temp_min < forecast.forecasts[j].temp_min
    /\ \A i \in Matching :
          forecast.forecasts[i].temperature < result.value[1].temp_max

\* the forecast with every sample of another date removed
OnTargetDateOnly ==
    Forecast(forecast.location_name,
             SelectSeq(forecast.forecasts,
                       LAMBDA f : Date(f.time) = Date(now) + days_ahead))

\* C4: the aggregates range over exactly the samples of the target date:
\* precipitation_total is their sum, the wind, gust and probability maxima
\* are their maxima, and the whole summary equals the summary of the forecast
\* without its samples of other dates.
C4_OnlyTargetDate ==
    (SummaryReturned /\ result.value # None) =>
        LET s == result.value[1] IN
        /\ s.precipitation_total = SumOver(Matching, "precipitation")
        /\ IsMaxOver(s.wind_speed_max, Matching, "wind_speed_kmh")
        /\ IsMaxOver(s.wind_gust_max, Matching, "wind_gust")
        /\ IsMaxOver(s.precipitation_probability_max, Matching,
                     "precipitation_probability")
        /\ result = Return(get_daily_summary(OnTargetDateOnly, days_ahead, now))

\* two samples with precipitation on the target day and a wetter, windier
\* sample on another day
C4_Witness ==
    /\ SummaryReturned
    /\ result.value # None
    /\ \E i, j \in Matching :
          /\ i # j
          /\ forecast.forecasts[i].precipitation > 0
          /\ forecast.forecasts[j].precipitation > 0
    /\ \E k \in (1..Len(forecast.forecasts)) \ Matching :
          /\ forecast.forecasts[k].precipitation > 0
          /\ forecast.forecasts[k].wind_gust > result.value[1].wind_gust_max

----------------------------------------------------------------------------
(* Properties of the alert classifier *)

CheckAlertsDone == pc = "done" /\ op = "check_alerts"

\* a rule evaluator has returned
RuleReturned(name) == pc = "done" /\ op = name /\ result.raised = "none"

\* the evaluated call's rule configuration and measurements
RuleConfig(alert_type) == Item(alert_config, alert_type)
Measured(key) == daily_summary[1][key]
Fired == result.value # None
TheAlert == result.value[1]

Max2(a, b) == IF a >= b THEN a ELSE b
StrongestWind == Max2(Measured("wind_speed_max"), Measured("wind_gust_max"))

\* C1: check_alerts raises no domain-specific failure: every call returns a
\* list of alerts.
C1_NoDomainFailure == CheckAlertsDone => result.raised = "none"

\* the position of an alert type in the fixed evaluation order
TypeRank(alert_type) == CHOOSE i \in 1..Len(AlertTypes) : AlertTypes[i] = alert_type

\* C5: check_alerts returns its alerts in the order wind, storm, temperature,
\* precipitation, weather_conditions, at most one per rule type, whatever the
\* key order of the configuration.
C5_FixedTypeOrder ==
    CheckAlertsDone =>
        /\ result.raised = "none"
        /\ \A i, j \in 1..Len(result.value) :
              i < j => TypeRank(result.value[i].alert_type)
                          < TypeRank(result.value[j].alert_type)

\* C6 as claimed: a rule enabled without its required thresholds never
\* produces an alert.
C6_SkippedWithoutThresholds ==
    /\ (RuleReturned("_check_wind_alert")
        /\ "threshold_kmh" \notin DOMAIN RuleConfig("wind")) => ~Fired
    /\ (RuleReturned("_check_storm_alert")
        /\ "wind_gust_threshold_kmh" \notin DOMAIN RuleConfig("storm")
        /\ "precipitation_threshold_mm" \notin DOMAIN RuleConfig("storm")) => ~Fired
    /\ (RuleReturned("_check_precipitation_alert")
        /\ "threshold_mm" \notin DOMAIN RuleConfig("precipitation")) => ~Fired

\* C6: check_alerts returns no alert of a rule type whose enabled flag is false
\* or missing, and the temperature rule produces no alert when neither
\* threshold is configured; an absent threshold of the wind, storm or
\* precipitation rule does not skip the rule but is replaced by its default
\* (50 km/h; 70 km/h and 20 mm; 30 mm), and the rule fires exactly when the
\* summary reaches it.
C6_DisabledSkippedAbsentThresholdsDefaulted ==
    /\ CheckAlertsDone =>
          \A i \in 1..Len(result.value) :
              Enabled(alert_config, result.value[i].alert_type)
    /\ (RuleReturned("_check_temperature_alert")
        /\ "min_temp_c" \notin DOMAIN RuleConfig("temperature")
        /\ "max_temp_c" \notin DOMAIN RuleConfig("temperature")) => ~Fired
    /\ (RuleReturned("_check_wind_alert")
        /\ "threshold_kmh" \notin DOMAIN RuleConfig("wind")) =>
          (Fired <=> StrongestWind >= 50)
    /\ (RuleReturned("_check_storm_alert")
        /\ "wind_gust_threshold_kmh" \notin DOMAIN RuleConfig("storm")
        /\ "precipitation_threshold_mm" \notin DOMAIN RuleConfig("storm")) =>
          (Fired <=> (Measured("wind_gust_max") >= 70
                      /\ Measured("precipitation_total") >= 20))
    /\ (RuleReturned("_check_precipitation_alert")
        /\ "threshold_mm" \notin DOMAIN RuleConfig("precipitation")) =>
          (Fired <=> Measured("precipitation_total") >= 30)

\* wind enabled without threshold_kmh has produced an alert
C6_Witness ==
    /\ RuleReturned("_check_wind_alert")
    /\ RuleConfig("wind") = [enabled |-> TRUE]
    /\ Fired

\* C7: with threshold_kmh configured, the wind rule produces an alert exactly
\* when max(wind_speed_max, wind_gust_max) >= threshold_kmh, and the alert's
\* details carry both measured values and the threshold.
C7_WindFiresIffThresholdReached ==
    (RuleReturned("_check_wind_alert") /\ "threshold_kmh" \in DOMAIN RuleConfig("wind")) =>
        /\ Fired <=> StrongestWind >= RuleConfig("wind").threshold_kmh
        /\ Fired =>
              /\ TheAlert.alert_type = "wind"
              /\ TheAlert.details.max_wind_speed_kmh = Measured("wind_speed_max")
              /\ TheAlert.details.max_wind_gust_kmh = Measured("wind_gust_max")
              /\ TheAlert.details.threshold_kmh = RuleConfig("wind").threshold_kmh

\* the gust alone reaches the threshold and the alert is produced
C7_Witness ==
    /\ RuleReturned("_check_wind_alert")
    /\ "threshold_kmh" \in DOMAIN RuleConfig("wind")
    /\ Measured("wind_speed_max") < RuleConfig("wind").threshold_kmh
    /\ Measured("wind_gust_max") >= RuleConfig("wind").threshold_kmh
    /\ Fired

\* severe from 1.5 x threshold, high from 1.2 x threshold, both inclusive
WindSeverityTiers ==
    (RuleReturned("_check_wind_alert") /\ Fired) =>
        LET threshold == TheAlert.details.threshold_kmh
        IN  TheAlert.severity =
                IF 2 * StrongestWind >= 3 * threshold THEN "severe"
                ELSE IF 5 * StrongestWind >= 6 * threshold THEN "high"
                     ELSE "moderate"

WindExample(max_wind, max_gust) ==
    /\ RuleReturned("_check_wind_alert")
    /\ "threshold_kmh" \in DOMAIN RuleConfig("wind")
    /\ RuleConfig("wind").threshold_kmh = 50
    /\ Measured("wind_speed_max") = max_wind
    /\ Measured("wind_gust_max") = max_gust

\* C8 as claimed: the tiers, and with threshold 50 wind 55 and gust 60 give
\* moderate, gust 80 gives severe.
C8_TiersAndExamplesAsClaimed ==
    /\ WindSeverityTiers
    /\ WindExample(55, 60) => (Fired /\ TheAlert.severity = "moderate")
    /\ \A w \in Winds : WindExample(w, 80) => (Fired /\ TheAlert.severity = "severe")

\* C8: when the wind rule fires, severity is severe if either measurement is
\* >= 1.5 x threshold, else high if either is >= 1.2 x threshold, else
\* moderate, the boundaries inclusive.  With threshold 50: wind 55 and gust 60
\* give high (60 is exactly 1.2 x 50), wind 55 and gust 59 give moderate, gust
\* 80 gives severe.
C8_WindSeverity ==
    /\ WindSeverityTiers
    /\ WindExample(55, 60) => (Fired /\ TheAlert.severity = "high")
    /\ WindExample(55, 59) => (Fired /\ TheAlert.severity = "moderate")
    /\ \A w \in Winds : WindExample(w, 80) => (Fired /\ TheAlert.severity = "severe")

\* the gust is exactly 1.5 x threshold and the alert is severe
C8_Witness ==
    /\ WindExample(55, 75)
    /\ Fired
    /\ TheAlert.severity = "severe"

\* C9: with both thresholds configured, the storm rule fires exactly when
\* wind_gust_max >= wind_gust_threshold_kmh and precipitation_total >=
\* precipitation_threshold_mm both hold, and a storm alert is always severe.
C9_StormNeedsBoth ==
    (RuleReturned("_check_storm_alert")
     /\ "wind_gust_threshold_kmh" \in DOMAIN RuleConfig("storm")
     /\ "precipitation_threshold_mm" \in DOMAIN RuleConfig("storm")) =>
        /\ Fired <=>
              /\ Measured("wind_gust_max") >= RuleConfig("storm").wind_gust_threshold_kmh
              /\ Measured("precipitation_total")
                    >= RuleConfig("storm").precipitation_threshold_mm
        /\ Fired => (TheAlert.alert_type = "storm" /\ TheAlert.severity = "severe")

\* gust 100 against 70 with precipitation 0 against 20: no storm alert
C9_Witness ==
    /\ RuleReturned("_check_storm_alert")
    /\ RuleConfig("storm") =
          [enabled |-> TRUE, wind_gust_threshold_kmh |-> 70,
           precipitation_threshold_mm |-> 20]
    /\ Measured("wind_gust_max") = 100
    /\ Measured("precipitation_total") = 0
    /\ ~Fired

ColdBreached ==
    /\ "min_temp_c" \in DOMAIN RuleConfig("temperature")
    /\ Measured("temp_min") <= RuleConfig("temperature").min_temp_c

HeatBreached ==
    /\ "max_temp_c" \in DOMAIN RuleConfig("temperature")
    /\ Measured("temp_max") >= RuleConfig("temperature").max_temp_c

IsColdAlert(a) ==
    /\ a.alert_type = "temperature"
    /\ DOMAIN a.details = {"min_temperature_c", "threshold_c"}
    /\ a.details.min_temperature_c = Measured("temp_min")
    /\ a.details.threshold_c = RuleConfig("temperature").min_temp_c

\* C10: the temperature rule returns at most one alert, and when the cold and
\* the heat threshold are both breached that alert is the cold one.
C10_ColdTakesPrecedence ==
    RuleReturned("_check_temperature_alert") =>
        /\ Len(result.value) <= 1
        /\ (ColdBreached /\ HeatBreached) => (Fired /\ IsColdAlert(TheAlert))

C10_Witness ==
    /\ RuleReturned("_check_temperature_alert")
    /\ ColdBreached
    /\ HeatBreached
    /\ Fired
    /\ IsColdAlert(TheAlert)

IsHeatAlert(a) ==
    /\ a.alert_type = "temperature"
    /\ DOMAIN a.details = {"max_temperature_c", "threshold_c"}
    /\ a.details.max_temperature_c = Measured("temp_max")
    /\ a.details.threshold_c = RuleConfig("temperature").max_temp_c

\* C11: the temperature rule works with either, both or neither threshold.
\* The cold alert fires exactly when min_temp_c is configured and the day's
\* minimum is at or below it, high when at or below min_temp_c - 5 and moderate
\* otherwise; when no cold alert fired, the heat alert fires exactly when
\* max_temp_c is configured and the day's maximum is at or above it, high when
\* at or above max_temp_c + 5 and moderate otherwise; with neither configured
\* no alert is returned.
C11_OneSidedTemperatureChecks ==
    RuleReturned("_check_temperature_alert") =>
        LET temp_config == RuleConfig("temperature")
        IN  /\ Fired <=> (ColdBreached \/ HeatBreached)
            /\ ColdBreached =>
                    /\ IsColdAlert(TheAlert)
                    /\ TheAlert.severity =
                         IF Measured("temp_min") <= temp_config.min_temp_c - 5
                         THEN "high" ELSE "moderate"
            /\ (~ColdBreached /\ HeatBreached) =>
                    /\ IsHeatAlert(TheAlert)
                    /\ TheAlert.severity =
                         IF Measured("temp_max") >= temp_config.max_temp_c + 5
                         THEN "high" ELSE "moderate"
            /\ ({"min_temp_c", "max_temp_c"} \cap DOMAIN temp_config = {}) => ~Fired

\* only the heat threshold is configured and the maximum is five degrees above it
C11_Witness ==
    /\ RuleReturned("_check_temperature_alert")
    /\ DOMAIN RuleConfig("temperature") = {"enabled", "max_temp_c"}
    /\ Measured("temp_max") = RuleConfig("temperature").max_temp_c + 5
    /\ Fired
    /\ IsHeatAlert(TheAlert)
    /\ TheAlert.severity = "high"

\* C12: the precipitation rule fires exactly when the day's total reaches the
\* configured threshold_mm; the alert is severe from twice the threshold,
\* otherwise high from one and a half times it, otherwise moderate, each
\* boundary included; a total of 65 against a threshold of 30 is severe.
C12_PrecipitationTiers ==
    (RuleReturned("_check_precipitation_alert")
     /\ "threshold_mm" \in DOMAIN RuleConfig("precipitation")) =>
        LET threshold == RuleConfig("precipitation").threshold_mm
            total == Measured("precipitation_total")
        IN  /\ Fired <=> total >= threshold
            /\ Fired =>
                 /\ TheAlert.alert_type = "precipitation"
                 /\ TheAlert.severity =
                      IF total >= 2 * threshold THEN "severe"
                      ELSE IF 2 * total >= 3 * threshold THEN "high"
                           ELSE "moderate"
            /\ (threshold = 30 /\ total = 65) => (Fired /\ TheAlert.severity = "severe")

C12_Witness ==
    /\ RuleReturned("_check_precipitation_alert")
    /\ "threshold_mm" \in DOMAIN RuleConfig("precipitation")
    /\ RuleConfig("precipitation").threshold_mm = 30
    /\ Measured("precipitation_total") = 65
    /\ Fired
    /\ TheAlert.severity = "severe"

\* the phrase occurs in the label when letter case is ignored
OccursIgnoringCase(phrase, label) ==
    \E k \in 0..(Len(label) - Len(phrase)) :
        \A i \in 1..Len(phrase) : LowerChar(label[k + i]) = LowerChar(phrase[i])

AlertOn == Get(RuleConfig("weather_conditions"), "alert_on", <<>>)
\* the observed labels in which some configured phrase occurs
MatchingLabels ==
    {label \in Measured("weather_conditions") :
        \E i \in 1..Len(AlertOn) : OccursIgnoringCase(AlertOn[i], label)}

\* C13 as claimed: the rule fires exactly when some configured phrase occurs,
\* case ignored, in some observed label; the alert is moderate; its detail
\* payload lists every observed label that matches, and no other label.
C13_PayloadListsObservedLabels ==
    RuleReturned("_check_weather_conditions_alert") =>
        /\ Fired <=> MatchingLabels # {}
        /\ Fired =>
             /\ TheAlert.severity = "moderate"
             /\ TheAlert.details.weather_conditions = MatchingLabels

\* C13: the rule fires exactly when some configured phrase occurs, case
\* ignored, in some observed label; the alert is moderate; its detail payload
\* lists the lower-cased form of every observed label that matches, and of no
\* other label.
C13_PayloadListsLowerCasedLabels ==
    RuleReturned("_check_weather_conditions_alert") =>
        /\ Fired <=> MatchingLabels # {}
        /\ Fired =>
             /\ TheAlert.alert_type = "weather_conditions"
             /\ TheAlert.severity = "moderate"
             /\ TheAlert.details.weather_conditions =
                    {Lower(label) : label \in MatchingLabels}

\* two observed labels, each matched by a different phrase
C13_Witness ==
    /\ RuleReturned("_check_weather_conditions_alert")
    /\ Cardinality(Measured("weather_conditions")) = 2
    /\ Cardinality(MatchingLabels) = 2
    /\ Fired
    /\ Cardinality(TheAlert.details.weather_conditions) = 2
    /\ TheAlert.details.weather_conditions # MatchingLabels

CheckAllLocationsDone == pc = "done" /\ op = "check_all_locations"

\* the alerts section's entry of a rule type, and the offset it is checked at
RuleOf(alert_type) == Item(alert_config, alert_type)
OffsetOf(alert_type) == Get(RuleOf(alert_type), "check_days_ahead", 1)
\* the rule types that are enabled mappings of the alerts section
EnabledTypes ==
    {alert_config[i].key : i \in {j \in 1..Len(alert_config) :
        /\ "scalar" \notin DOMAIN alert_config[j].value
        /\ Get(alert_config[j].value, "enabled", FALSE)}}
\* the summary of the n-th forecast for the day `offset` days after the run's day
SummaryAt(n, offset) == get_daily_summary(forecasts[n], offset, now)

\* C14: check_all_locations returns a list in which every alert of rule type
\* T carries the forecast date that is the current date plus T's
\* check_days_ahead (1 when it is not configured).
C14_EachTypeAtItsOwnOffset ==
    CheckAllLocationsDone =>
        /\ result.raised = "none"
        /\ \A i \in 1..Len(result.value) :
              result.value[i].forecast_date =
                  Date(now) + OffsetOf(result.value[i].alert_type)

\* C15: when a location has no data for the day an enabled rule type is
\* checked at, check_all_locations does not fail, and the other pairs of
\* location and rule type are still evaluated: a wind rule that is enabled and
\* whose threshold is reached at its own offset gives a wind alert for that
\* location and day.
C15_AbsentSummarySkipped ==
    (/\ CheckAllLocationsDone
     /\ \E n \in 1..Len(forecasts), t \in EnabledTypes : SummaryAt(n, OffsetOf(t)) = None) =>
        /\ result.raised = "none"
        /\ \A n \in 1..Len(forecasts) :
              LET summary == SummaryAt(n, OffsetOf("wind"))
              IN  (/\ "wind" \in EnabledTypes
                   /\ summary # None
                   /\ Max2(summary[1].wind_speed_max, summary[1].wind_gust_max)
                         >= RuleOf("wind").threshold_kmh) =>
                      \E i \in 1..Len(result.value) :
                          /\ result.value[i].location_name = forecasts[n].location_name
                          /\ result.value[i].alert_type = "wind"
                          /\ result.value[i].forecast_date = Date(now) + OffsetOf("wind")

SubscribersReturned(name) == pc = "done" /\ op = name /\ result.raised = "none"
WasSubscribed(chat_id) == is_subscribed(chat_id, subscribers_before)
IsSubscribed(chat_id) == is_subscribed(chat_id, subscribers_file)
\* the call changed who is subscribed
MembershipChanged == \E x \in ChatIds : WasSubscribed(x) # IsSubscribed(x)
OthersKept == \A x \in ChatIds \ {args.chat_id} : WasSubscribed(x) = IsSubscribed(x)

\* C17: add_subscriber(c) and remove_subscriber(c) return True exactly when they
\* changed the persisted set.  add returns True iff c was not subscribed
\* before, and then c is subscribed afterwards; remove returns True iff c was
\* subscribed before, and then c is not subscribed afterwards; when they
\* return False the file is left as it was; the membership of every other chat
\* id is unchanged.
C17_TrueIffPersistedSetChanged ==
    /\ SubscribersReturned("add_subscriber") =>
          /\ result.value[1] <=> MembershipChanged
          /\ result.value[1] <=> ~WasSubscribed(args.chat_id)
          /\ IsSubscribed(args.chat_id)
          /\ ~result.value[1] => subscribers_file = subscribers_before
          /\ OthersKept
    /\ SubscribersReturned("remove_subscriber") =>
          /\ result.value[1] <=> MembershipChanged
          /\ result.value[1] <=> WasSubscribed(args.chat_id)
          /\ ~IsSubscribed(args.chat_id)
          /\ ~result.value[1] => subscribers_file = subscribers_before
          /\ OthersKept

\* a chat id is removed from a hand-edited file in which it is a number and in
\* which another chat id is subscribed
C17_Witness ==
    /\ SubscribersReturned("remove_subscriber")
    /\ result.value[1]
    /\ JsonNumber(args.chat_id) \in
          {subscribers_before.subscribers[i] : i \in 1..Len(subscribers_before.subscribers)}
    /\ \E x \in ChatIds \ {args.chat_id} : WasSubscribed(x) /\ IsSubscribed(x)
    /\ ~IsSubscribed(args.chat_id)

\* the chat ids that the call has subscribed
NewlySubscribed == {x \in ChatIds : ~WasSubscribed(x) /\ IsSubscribed(x)}

\* C18: process_pending_messages returns the number of new subscribers added
\* during the call, the number of chat ids that were not subscribed before it
\* and are subscribed after it, whatever Telegram answers to its requests
\* (every write of the subscribers file succeeding).
C18_ReturnsNumberAdded ==
    (/\ pc = "done"
     /\ op = "process_pending_messages"
     /\ result.raised = "none"
     /\ args.fails_at = 0) =>
        result.value[1] = Cardinality(NewlySubscribed)

RunDone == pc = "done" /\ op = "check_weather_and_send_alerts"
ReturnValue == result.value[1]
\* the alerts of the run that reached at least one chat
AlertsDelivered ==
    Cardinality({i \in 1..Len(args.alerts) :
                    \E k \in 1..Len(sent) :
                        /\ sent[k].kind = "alert"
                        /\ sent[k].alert_index = i
                        /\ sent[k].delivered})
\* what went wrong around the run
ConfigurationFailed ==
    \/ args.config_load.raised # "none"
    \/ args.config_load.value[1].api_key = None
WeatherApiFailed ==
    \/ args.config_load.raised = "none" /\ args.config_load.value[1].api_key = Some("")
    \/ \E i \in 1..Len(args.weather) : args.weather[i].answer.raised # "none"
TelegramFailed ==
    \/ args.config_load.raised = "none" /\ args.config_load.value[1].telegram.bot_token = ""
    \/ args.telegram.get_me # "none"
    \/ args.telegram.failing # {}
    \/ args.pending.get_updates.raised # "none"
    \/ args.pending.acknowledge # "none"

DevMode == args.dev_chat_id # None /\ args.dev_chat_id # Some("")

\* C20: when dev_chat_id is set, every message of the run, alert or summary,
\* is sent to that chat id and to no other: no configured chat id and no
\* subscriber other than dev_chat_id is a recipient.
C20_DevModeSendsToDevChatOnly ==
    (RunDone /\ DevMode) =>
        \A k \in 1..Len(sent) : sent[k].chat_id = args.dev_chat_id[1]

\* a dev-mode run delivers its message while another chat id is configured and
\* yet another is subscribed
C20_Witness ==
    /\ RunDone
    /\ DevMode
    /\ Len(sent) = 1
    /\ sent[1].delivered
    /\ sent[1].chat_id = args.dev_chat_id[1]
    /\ get_all_chat_ids(args.config_load.value[1].telegram.chat_ids, subscribers_file)
          \ {args.dev_chat_id[1]} # {}
    /\ get_subscribers(subscribers_file) \ {args.dev_chat_id[1]} # {}

----------------------------------------------------------------------------
\* C21: get_forecasts_for_locations does not raise when fetching a location
\* fails with WeatherAPIError, and it returns the forecasts of exactly the
\* locations whose fetch succeeded, in the order of the input: the forecast of
\* the k-th succeeding location is the k-th element of the result.
C21_FailingLocationSkipped ==
    (pc = "done" /\ op = "get_forecasts_for_locations") =>
        LET weather == args.weather
            succeeded == {i \in 1..Len(weather) : weather[i].answer.raised = "none"}
        IN  /\ result.raised = "none"
            /\ Len(result.value) = Cardinality(succeeded)
            /\ \A i \in succeeded :
                   result.value[Cardinality({j \in succeeded : j <= i})]
                      = weather[i].answer.value[1]

\* A location that fails lies between two that succeed, and both are returned
C21_Witness ==
    /\ pc = "done"
    /\ op = "get_forecasts_for_locations"
    /\ Len(args.weather) = 3
    /\ args.weather[1].answer.raised = "none"
    /\ args.weather[2].answer.raised = "WeatherAPIError"
    /\ args.weather[3].answer.raised = "none"
    /\ result.value = <<args.weather[1].answer.value[1], args.weather[3].answer.value[1]>>

----------------------------------------------------------------------------
\* C22 as stated: every call of send_message attempts delivery to every
\* configured chat id exactly once, in list order.
C22_EveryChatIdAttempted ==
    (pc = "done" /\ op = "send_message") =>
        /\ Len(sent) = Len(args.chat_ids)
        /\ \A i \in 1..Len(sent) : sent[i].chat_id = args.chat_ids[i]

SendMessageReturned == pc = "done" /\ op = "send_message" /\ result.raised = "none"

\* C22, amended: a call of send_message whose bot is initialised or whose
\* initialisation succeeds returns, having attempted delivery to every
\* configured chat id exactly once in list order whatever failed before; the
\* chat ids delivered to are results['success'], the others results['failed'],
\* and no chat id is in both.  A call whose initialisation fails raises the
\* TelegramError of get_me and attempts nothing.
C22_EveryChatIdAttemptedOnReturn ==
    (pc = "done" /\ op = "send_message") =>
        IF args.has_bot \/ args.telegram.get_me = "none"
        THEN LET results == result.value[1]
                 succeeded == {results.success[i] : i \in 1..Len(results.success)}
                 failed == {results.failed[i].chat_id : i \in 1..Len(results.failed)}
             IN  /\ result.raised = "none"
                 /\ Len(sent) = Len(args.chat_ids)
                 /\ \A i \in 1..Len(sent) :
                        /\ sent[i].chat_id = args.chat_ids[i]
                        /\ sent[i].delivered <=> args.chat_ids[i] \notin args.telegram.failing
                        /\ sent[i].parse_mode = args.parse_mode
                        /\ sent[i].disable_notification = args.silent
                 /\ Len(results.success) + Len(results.failed) = Len(args.chat_ids)
                 /\ succeeded \cap failed = {}
                 /\ succeeded = {sent[i].chat_id : i \in {j \in 1..Len(sent) : sent[j].delivered}}
                 /\ failed = {sent[i].chat_id : i \in {j \in 1..Len(sent) : ~sent[j].delivered}}
        ELSE result.raised = "TelegramError" /\ sent = <<>>

\* Delivery to the first chat id fails and the second is still delivered to
C22_Witness ==
    /\ SendMessageReturned
    /\ Len(args.chat_ids) = 2
    /\ ~sent[1].delivered
    /\ sent[2].delivered
    /\ result.value[1].success = <<args.chat_ids[2]>>
    /\ result.value[1].failed = <<[chat_id |-> args.chat_ids[1], error |-> "TelegramError"]>>

----------------------------------------------------------------------------
\* C25: send_alerts sends the alerts one at a time in list order, each alert to
\* all chat ids in their order before the next alert starts, and each alert is
\* sent by send_alert silently (disable_notification true) exactly when its
\* severity is low or moderate, with notification when it is high or severe.
\* Nothing is sent for an empty list, nor when initialising the bot fails.
C25_AlertsInOrderSilentWhenMild ==
    (pc = "done" /\ op = "send_alerts") =>
        LET n == Len(args.chat_ids)
        IN  IF args.alerts = <<>> \/ args.telegram.get_me = "none"
            THEN /\ result.raised = "none"
                 /\ Len(sent) = Len(args.alerts) * n
                 /\ \A k \in 1..Len(sent) :
                        LET a == ((k - 1) \div n) + 1
                            c == ((k - 1) % n) + 1
                            severity == args.alerts[a].severity
                        IN  /\ sent[k].kind = "alert"
                            /\ sent[k].alert_index = a
                            /\ sent[k].chat_id = args.chat_ids[c]
                            /\ sent[k].disable_notification <=> severity \in {"low", "moderate"}
                            /\ ~sent[k].disable_notification <=> severity \in {"high", "severe"}
            ELSE result.raised = "TelegramError" /\ sent = <<>>

\* A moderate alert then a high one to two chat ids: two silent messages are
\* followed by two with notification
C25_Witness ==
    /\ pc = "done"
    /\ op = "send_alerts"
    /\ Len(args.chat_ids) = 2
    /\ Len(args.alerts) = 2
    /\ args.alerts[1].severity = "moderate"
    /\ args.alerts[2].severity = "high"
    /\ Len(sent) = 4
    /\ sent[1].disable_notification /\ sent[2].disable_notification
    /\ ~sent[3].disable_notification /\ ~sent[4].disable_notification
    /\ sent[2].alert_index = 1 /\ sent[3].alert_index = 2

----------------------------------------------------------------------------
PendingProcessed == pc = "done" /\ op = "process_pending_messages"

\* the positions in the call log of the confirming request and of the
\* add_subscriber calls, and the chat ids passed to add_subscriber before k
Confirmations == {k \in 1..Len(args.calls) :
                     args.calls[k].call = "get_updates" /\ args.calls[k].arg # None}
PassedBefore(k) == {args.calls[j].arg[1] :
                       j \in {i \in 1..(k - 1) : args.calls[i].call = "add_subscriber"}}
Passed == PassedBefore(Len(args.calls) + 1)

\* the first request failed, resp. an add_subscriber call raised (its chat id
\* was passed and is not in the file)
FetchFailed == args.bot_token # "" /\ args.telegram.get_updates.raised # "none"
AddFailed == \E c \in Passed : c \notin get_subscribers(subscribers_file)

\* What a call leaves behind: it confirms at most once, as its last call, with
\* offset = last update_id + 1 and after every chat id of the fetched updates
\* was passed to add_subscriber; when fetching or adding failed it sends no
\* confirmation and Telegram still holds every update it held
ConfirmedOnlyAfterAdding ==
    PendingProcessed =>
        LET updates == args.pending_before
        IN  /\ \A k \in Confirmations :
                   /\ k = Len(args.calls)
                   /\ updates # <<>>
                   /\ args.calls[k].arg = Some(updates[Len(updates)].update_id + 1)
                   /\ chat_ids_of(updates) \subseteq PassedBefore(k)
                   /\ args.telegram.acknowledge = "none" => pending_updates = <<>>
            /\ (FetchFailed \/ AddFailed) =>
                   /\ Confirmations = {}
                   /\ pending_updates = updates

\* A call whose first request succeeds is handed every update Telegram holds
\* and passes each of their chat ids to add_subscriber until one add fails
PendingProcessedAgain ==
    (pc = "idle" /\ PendingProcessed' /\ args'.bot_token # ""
     /\ args'.telegram.get_updates.raised = "none") =>
        /\ args'.telegram.get_updates.value = pending_updates
        /\ \/ AddFailed'
           \/ chat_ids_of(pending_updates) = Passed'

\* C24: process_pending_messages confirms the pending updates (get_updates
\* with offset = last update_id + 1) only after every chat id found in them
\* has been passed to add_subscriber; when fetching the updates or adding a
\* subscriber fails no confirmation is sent, the updates stay pending at
\* Telegram, and the next call is handed them and processes them again.
C24_ConfirmedOnlyAfterAdding ==
    []ConfirmedOnlyAfterAdding /\ [][PendingProcessedAgain]_vars

\* Two chats wrote; the first is subscribed, the write for the second is
\* refused: no confirmation, both updates still pending
C24_Witness ==
    /\ PendingProcessed
    /\ Len(args.pending_before) = 2
    /\ Len(args.order) = 2
    /\ args.order[1] \in get_subscribers(subscribers_file)
    /\ args.order[1] \notin get_subscribers(subscribers_before)
    /\ AddFailed
    /\ Confirmations = {}
    /\ pending_updates = args.pending_before

----------------------------------------------------------------------------
\* the run got as far as retrieving at least one forecast: the configuration
\* loaded, the bot token and the API key were usable
ForecastRetrieved ==
    /\ args.config_load.raised = "none"
    /\ args.config_load.value[1].telegram.bot_token # ""
    /\ args.config_load.value[1].api_key \notin {None, Some("")}
    /\ forecasts # <<>>

\* all_chat_ids of the run
Recipients ==
    recipients(args.dev_chat_id, args.config_load.value[1].telegram.chat_ids,
               subscribers_file, args.order)

\* C23: a run in which the configuration loads, at least one forecast is
\* retrieved and at least one recipient exists (and the bot can be initialised)
\* ends having attempted delivery to every recipient of every generated alert,
\* one message per alert in generation order, or, when there is no alert, of
\* exactly one summary message: never both and never neither.
C23_AlertsOrElseOneSummary ==
    (RunDone /\ ForecastRetrieved /\ Recipients # <<>> /\ args.telegram.get_me = "none") =>
        LET n == Len(Recipients)
        IN  IF args.alerts # <<>>
            THEN /\ Len(sent) = Len(args.alerts) * n
                 /\ \A k \in 1..Len(sent) :
                        /\ sent[k].kind = "alert"
                        /\ sent[k].alert_index = ((k - 1) \div n) + 1
                        /\ sent[k].chat_id = Recipients[((k - 1) % n) + 1]
            ELSE /\ Len(sent) = n
                 /\ \A k \in 1..n :
                        sent[k].kind = "summary" /\ sent[k].chat_id = Recipients[k]

----------------------------------------------------------------------------
\* the alerts of the returned list for one location, rule type and day
AlertsFor(location_name, alert_type, forecast_date) ==
    {i \in 1..Len(result.value) :
        /\ result.value[i].location_name = location_name
        /\ result.value[i].alert_type = alert_type
        /\ result.value[i].forecast_date = forecast_date}

====
